---- MODULE Spec2Model ----
(***************************************************************************)
(* videotonotes: the upload / poll / generate workflow and its progress    *)
(* protocol.                                                               *)
(*                                                                         *)
(* Two hosts run the workflow:                                             *)
(*   host = "page"   the browser page, which calls the Gemini REST API     *)
(*                   itself (handleSubmit, waitForGeminiFileActive);       *)
(*   host = "route"  the streaming endpoint POST /api/process, which       *)
(*                   validates the form, calls transcribeWithGemini with   *)
(*                   an onStatus callback and writes NDJSON records.       *)
(* Strings whose content the code inspects (URLs, MIME types, API keys)    *)
(* are sequences of one-character strings.                                 *)
(***************************************************************************)
EXTENDS Integers, Sequences, FiniteSets, TLC

\* ------------------------------------------------------------------ bounds
\* Largest number of status responses after which the remote file may still
\* be unfinished; the loop in the code has no such limit.
MaxPolls == 10

\* --------------------------------------------------------------- constants
FILE_ACTIVE_POLL_INITIAL_MS == 100
FILE_ACTIVE_POLL_MAX_MS == 20000
GEMINI_MODEL == "gemini-3-flash-preview"

\* A byte count is <<MiB, bytes below one MiB>>: 2 GiB does not fit the
\* checker's integers.
MAX_UPLOAD_BYTES == <<2048, 0>>

\* ----------------------------------------------------------------- strings
Whitespace == {" ", "\t", "\n", "\r"}
LowerAlpha == {"a","b","c","d","e","f","g","h","i","j","k","l","m",
               "n","o","p","q","r","s","t","u","v","w","x","y","z"}
UpperAlpha == {"H","T","P","S","J","O","N"}
Digits == {"0","1","2","3","4","5","6","7","8","9"}

Lower(c) ==
  CASE c = "H" -> "h"
    [] c = "T" -> "t"
    [] c = "P" -> "p"
    [] c = "S" -> "s"
    [] c = "J" -> "j"
    [] c = "O" -> "o"
    [] c = "N" -> "n"
    [] OTHER -> c

LowerStr(s) == [i \in 1..Len(s) |-> Lower(s[i])]

Min(a, b) == IF a <= b THEN a ELSE b

\* String.prototype.trim
RECURSIVE TrimLeft(_)
TrimLeft(s) ==
  IF s # <<>> /\ Head(s) \in Whitespace THEN TrimLeft(Tail(s)) ELSE s

RECURSIVE TrimRight(_)
TrimRight(s) ==
  IF s # <<>> /\ s[Len(s)] \in Whitespace
    THEN TrimRight(SubSeq(s, 1, Len(s) - 1))
    ELSE s

Trim(s) == TrimRight(TrimLeft(s))

\* String.prototype.startsWith
StartsWith(s, prefix) ==
  /\ Len(s) >= Len(prefix)
  /\ SubSeq(s, 1, Len(prefix)) = prefix

\* variant: the limit itself is refused
BytesGreater_orEqual(a, b) == a[1] > b[1] \/ (a[1] = b[1] /\ a[2] >= b[2])

\* number > number on byte counts
BytesGreater(a, b) == a[1] > b[1] \/ (a[1] = b[1] /\ a[2] > b[2])

\* ------------------------------------------------------------ new URL(text)
\* Index of the ":" that ends the scheme, 0 when the text has no scheme.
SchemeChars == LowerAlpha \cup UpperAlpha \cup Digits \cup {"+", "-", "."}

SchemeEnd(s) ==
  IF s = <<>> \/ s[1] \notin (LowerAlpha \cup UpperAlpha)
    THEN 0
    ELSE LET colons == {i \in 2..Len(s) :
                          /\ s[i] = ":"
                          /\ \A j \in 2..(i - 1) : s[j] \in SchemeChars}
         IN  IF colons = {} THEN 0
             ELSE CHOOSE i \in colons : \A j \in colons : i <= j

SpecialSchemes == { <<"h","t","t","p">>, <<"h","t","t","p","s">>,
                    <<"f","t","p">>, <<"w","s">>, <<"w","s","s">> }

RECURSIVE SkipSlashes(_)
SkipSlashes(s) ==
  IF s # <<>> /\ Head(s) \in {"/", "\\"} THEN SkipSlashes(Tail(s)) ELSE s

\* The host of a special URL: up to the first "/", "?" or "#".
RECURSIVE HostOf(_)
HostOf(s) ==
  IF s = <<>> \/ Head(s) \in {"/", "\\", "?", "#"}
    THEN <<>>
    ELSE <<Head(s)>> \o HostOf(Tail(s))

\* protocol of the parsed URL ("http:"), or <<>> when new URL throws
UrlProtocol(text) ==
  LET s == Trim(text)
      e == SchemeEnd(s)
  IN  IF e = 0 THEN <<>>
      ELSE LET scheme == LowerStr(SubSeq(s, 1, e - 1))
               rest == SubSeq(s, e + 1, Len(s))
               host == HostOf(SkipSlashes(rest))
           IN  IF scheme \in SpecialSchemes
                    /\ (host = <<>> \/ \E i \in 1..Len(host) : host[i] \in Whitespace)
                 THEN <<>>
                 ELSE scheme \o <<":">>

\* variant: every URL that parses is accepted
IsHttpUrl_anyScheme(text) == UrlProtocol(text) # <<>>

\* try { new URL(u); protocol.startsWith("http") } catch
IsHttpUrl(text) == StartsWith(UrlProtocol(text), <<"h","t","t","p">>)

\* variant: a file without a type passes as a video
IsVideoType_orEmpty(type) ==
  type = <<>> \/ StartsWith(type, <<"v","i","d","e","o","/">>)

\* file.type.startsWith("video/")
IsVideoType(type) == StartsWith(type, <<"v","i","d","e","o","/">>)

\* variant: the key is tested as typed
CredentialMissing_untrimmed(key) == key = <<>>

\* !apiKey.trim()
CredentialMissing(key) == Trim(key) = <<>>

\* variant: the URL is tested as typed
NoUsableInput_untrimmed(url, f) == url = <<>> /\ ~f.present

\* !videoUrl.trim() && !file
NoUsableInput(url, f) == Trim(url) = <<>> /\ ~f.present

\* ====================================================================
\* The Response Parser: JSON.parse, stripCodeFence, normalizeNotes,
\* parseGeminiText
\* ====================================================================
\* A JSON value is [t, s, items]: t is its type, s the characters of a
\* string, number or literal, items the elements of an array or the
\* [k, v] members of an object, in the order of the text.
JsonNull == [t |-> "null", s |-> <<"n","u","l","l">>, items |-> <<>>]
JsonFail == [ok |-> FALSE, v |-> JsonNull, p |-> 0]

RECURSIVE SkipWs(_, _)
SkipWs(s, p) ==
  IF p <= Len(s) /\ s[p] \in Whitespace THEN SkipWs(s, p + 1) ELSE p

\* the characters of a string literal whose opening quote is before p
RECURSIVE ParseStringBody(_, _, _)
ParseStringBody(s, p, acc) ==
  IF p > Len(s) THEN JsonFail
  ELSE IF s[p] = "\"" THEN
    [ok |-> TRUE, v |-> [t |-> "str", s |-> acc, items |-> <<>>], p |-> p + 1]
  ELSE IF s[p] = "\\" THEN
    IF p + 1 > Len(s) THEN JsonFail
    ELSE IF s[p + 1] = "n" THEN ParseStringBody(s, p + 2, Append(acc, "\n"))
    ELSE IF s[p + 1] = "t" THEN ParseStringBody(s, p + 2, Append(acc, "\t"))
    ELSE IF s[p + 1] \in {"\"", "\\", "/"}
      THEN ParseStringBody(s, p + 2, Append(acc, s[p + 1]))
    ELSE JsonFail
  ELSE IF s[p] \in {"\n", "\r", "\t"} THEN JsonFail
  ELSE ParseStringBody(s, p + 1, Append(acc, s[p]))

RECURSIVE DigitsEnd(_, _)
DigitsEnd(s, p) ==
  IF p <= Len(s) /\ s[p] \in Digits THEN DigitsEnd(s, p + 1) ELSE p

\* an integer literal: -? (0 | [1-9][0-9]*), its digits from d up to e
NumberFrom(s, p, d, e) ==
  IF e = d \/ (s[d] = "0" /\ e > d + 1) THEN JsonFail
  ELSE [ok |-> TRUE,
        v |-> [t |-> "num", s |-> SubSeq(s, p, e - 1), items |-> <<>>],
        p |-> e]
NumberAt(s, p, d) == NumberFrom(s, p, d, DigitsEnd(s, d))
ParseNumber(s, p) == NumberAt(s, p, IF s[p] = "-" THEN p + 1 ELSE p)

ParseLiteral(s, p, word, type) ==
  IF p + Len(word) - 1 <= Len(s) /\ SubSeq(s, p, p + Len(word) - 1) = word
    THEN [ok |-> TRUE, v |-> [t |-> type, s |-> word, items |-> <<>>],
          p |-> p + Len(word)]
    ELSE JsonFail

RECURSIVE ParseValue(_, _)
RECURSIVE ParseElements(_, _, _)
RECURSIVE ParseMembers(_, _, _)

\* an array: after an element, "," and the next element, or "]"
ElementsNext(s, acc, q) ==
  IF q > Len(s) THEN JsonFail
  ELSE IF s[q] = "," THEN ParseElements(s, q + 1, acc)
  ELSE IF s[q] = "]" THEN
    [ok |-> TRUE, v |-> [t |-> "arr", s |-> <<>>, items |-> acc], p |-> q + 1]
  ELSE JsonFail
ElementsAfter(s, acc, e) ==
  IF ~e.ok THEN JsonFail ELSE ElementsNext(s, Append(acc, e.v), SkipWs(s, e.p))
ParseElements(s, p, acc) == ElementsAfter(s, acc, ParseValue(s, p))

\* an object: a key, ":", a value, then "," and the next member, or "}"
MembersNext(s, acc, q) ==
  IF q > Len(s) THEN JsonFail
  ELSE IF s[q] = "," THEN ParseMembers(s, q + 1, acc)
  ELSE IF s[q] = "}" THEN
    [ok |-> TRUE, v |-> [t |-> "obj", s |-> <<>>, items |-> acc], p |-> q + 1]
  ELSE JsonFail
MemberAfter(s, acc, name, e) ==
  IF ~e.ok THEN JsonFail
  ELSE MembersNext(s, Append(acc, [k |-> name, v |-> e.v]), SkipWs(s, e.p))
MemberValue(s, acc, name, c) ==
  IF c > Len(s) \/ s[c] # ":" THEN JsonFail
  ELSE MemberAfter(s, acc, name, ParseValue(s, c + 1))
MemberColon(s, acc, key) ==
  IF ~key.ok THEN JsonFail ELSE MemberValue(s, acc, key.v.s, SkipWs(s, key.p))
MemberKey(s, acc, k) ==
  IF k > Len(s) \/ s[k] # "\"" THEN JsonFail
  ELSE MemberColon(s, acc, ParseStringBody(s, k + 1, <<>>))
ParseMembers(s, p, acc) == MemberKey(s, acc, SkipWs(s, p))

\* "{" or "[" at q, the next character that is not white space at r
ObjectAt(s, q, r) ==
  IF r <= Len(s) /\ s[r] = "}"
    THEN [ok |-> TRUE, v |-> [t |-> "obj", s |-> <<>>, items |-> <<>>], p |-> r + 1]
    ELSE ParseMembers(s, q + 1, <<>>)
ArrayAt(s, q, r) ==
  IF r <= Len(s) /\ s[r] = "]"
    THEN [ok |-> TRUE, v |-> [t |-> "arr", s |-> <<>>, items |-> <<>>], p |-> r + 1]
    ELSE ParseElements(s, q + 1, <<>>)

ValueAt(s, q) ==
  IF q > Len(s) THEN JsonFail
  ELSE IF s[q] = "{" THEN ObjectAt(s, q, SkipWs(s, q + 1))
  ELSE IF s[q] = "[" THEN ArrayAt(s, q, SkipWs(s, q + 1))
  ELSE IF s[q] = "\"" THEN ParseStringBody(s, q + 1, <<>>)
  ELSE IF s[q] \in Digits \cup {"-"} THEN ParseNumber(s, q)
  ELSE IF s[q] = "t" THEN ParseLiteral(s, q, <<"t","r","u","e">>, "bool")
  ELSE IF s[q] = "f" THEN ParseLiteral(s, q, <<"f","a","l","s","e">>, "bool")
  ELSE IF s[q] = "n" THEN ParseLiteral(s, q, <<"n","u","l","l">>, "null")
  ELSE JsonFail
ParseValue(s, p) == ValueAt(s, SkipWs(s, p))

\* JSON.parse(text): ok is FALSE where it throws a SyntaxError
ParseEnd(text, r) ==
  IF r.ok /\ SkipWs(text, r.p) > Len(text)
    THEN [ok |-> TRUE, v |-> r.v]
    ELSE [ok |-> FALSE, v |-> JsonNull]
JSONparse(text) == ParseEnd(text, ParseValue(text, 1))

\* String(value) for a value that JSON.parse returned
RECURSIVE JsString(_)
RECURSIVE JsJoin(_, _)
JsJoin(items, i) ==
  IF i > Len(items) THEN <<>>
  ELSE (IF i > 1 THEN <<",">> ELSE <<>>)
         \o (IF items[i].t = "null" THEN <<>> ELSE JsString(items[i]))
         \o JsJoin(items, i + 1)

JsString(v) ==
  CASE v.t = "arr" -> JsJoin(v.items, 1)
    [] v.t = "obj" -> <<"[","o","b","j","e","c","t"," ","O","b","j","e","c","t","]">>
    [] OTHER -> v.s

\* parsed[key]: undefined unless parsed is an object that has the key; of
\* two members with the same key the later one is kept
GetProperty(parsed, key) ==
  LET hits == IF parsed.t = "obj"
                THEN {i \in 1..Len(parsed.items) : parsed.items[i].k = key}
                ELSE {}
  IN  IF hits = {}
        THEN [defined |-> FALSE, v |-> JsonNull]
        ELSE [defined |-> TRUE,
              v |-> parsed.items[CHOOSE i \in hits : \A j \in hits : j <= i].v]

\* text.split("\n")
RECURSIVE SplitLines(_, _)
SplitLines(text, line) ==
  IF text = <<>> THEN << line >>
  ELSE IF Head(text) = "\n" THEN << line >> \o SplitLines(Tail(text), <<>>)
  ELSE SplitLines(Tail(text), Append(line, Head(text)))

\* the characters U+2022 (bullet) and U+0060 (backtick)
Bullet == "U+2022"
Backtick == "U+0060"

\* line.replace(/^[-\u2022\s]+/, "")
RECURSIVE StripBullet(_)
StripBullet(line) ==
  IF line # <<>> /\ Head(line) \in ({"-", Bullet} \cup Whitespace)
    THEN StripBullet(Tail(line))
    ELSE line

\* variant: nothing is filtered out
NonEmpty_all(lines) == lines

\* .filter(Boolean) on strings
NonEmpty(lines) == SelectSeq(lines, LAMBDA l : l # <<>>)

\* notes.map((note) => String(note).trim())
TrimmedItems(items) == [i \in 1..Len(items) |-> Trim(JsString(items[i]))]
\* lines.map((line) => line.replace(...).trim())
TrimmedLines(lines) == [i \in 1..Len(lines) |-> Trim(StripBullet(lines[i]))]

normalizeNotes(notes) ==
  IF notes.defined /\ notes.v.t = "arr"
    THEN NonEmpty(TrimmedItems(notes.v.items))
  ELSE IF notes.defined /\ notes.v.t = "str"
    THEN NonEmpty(TrimmedLines(SplitLines(notes.v.s, <<>>)))
  ELSE <<>>

\* .replace(/^```(?:json)?/i, "") and .replace(/```$/i, "")
Fence == << Backtick, Backtick, Backtick >>
StripJsonTag(r) ==
  IF StartsWith(LowerStr(r), <<"j","s","o","n">>) THEN SubSeq(r, 5, Len(r)) ELSE r
StripOpeningFence(t) ==
  IF StartsWith(t, Fence) THEN StripJsonTag(SubSeq(t, 4, Len(t))) ELSE t
StripClosingFence(t) ==
  IF Len(t) >= 3 /\ SubSeq(t, Len(t) - 2, Len(t)) = Fence
    THEN SubSeq(t, 1, Len(t) - 3)
    ELSE t

stripCodeFence(rawText) ==
  Trim(StripClosingFence(StripOpeningFence(Trim(rawText))))

Threw == [threw |-> TRUE, transcript |-> <<>>, notes |-> <<>>]

\* parsed.transcript?.trim() || "" throws on a transcript that is neither a
\* string nor null or undefined
ReadFields(transcript, notes) ==
  IF transcript.defined /\ transcript.v.t \notin {"str", "null"}
    THEN Threw
    ELSE [threw |-> FALSE,
          transcript |-> IF transcript.defined /\ transcript.v.t = "str"
                           THEN Trim(transcript.v.s) ELSE <<>>,
          notes |-> normalizeNotes(notes)]

\* JSON.parse threw, or reading a property of null throws
ReadParsed(parsed) ==
  IF ~parsed.ok \/ parsed.v.t = "null" THEN Threw
  ELSE ReadFields(GetProperty(parsed.v, <<"t","r","a","n","s","c","r","i","p","t">>),
                  GetProperty(parsed.v, <<"n","o","t","e","s">>))

tryParse(text) == ReadParsed(JSONparse(text))

\* text.indexOf(c) and text.lastIndexOf(c), counted from 1; 0 when absent
IndexOf(text, c) ==
  LET hits == {i \in 1..Len(text) : text[i] = c}
  IN  IF hits = {} THEN 0 ELSE CHOOSE i \in hits : \A j \in hits : i <= j
LastIndexOf(text, c) ==
  LET hits == {i \in 1..Len(text) : text[i] = c}
  IN  IF hits = {} THEN 0 ELSE CHOOSE i \in hits : \A j \in hits : j <= i

NoRawResponse == [null |-> TRUE, text |-> <<>>]
RawResponse(text) == [null |-> FALSE, text |-> text]

\* what a step of the parser leaves: it returned a value, it threw, or it
\* fell through to the next statement
Returned(parsed) ==
  [returned |-> TRUE, threw |-> FALSE, transcript |-> parsed.transcript,
   notes |-> parsed.notes, rawResponse |-> NoRawResponse]
FellThrough ==
  [returned |-> FALSE, threw |-> FALSE, transcript |-> <<>>, notes |-> <<>>,
   rawResponse |-> NoRawResponse]
Propagated ==
  [returned |-> FALSE, threw |-> TRUE, transcript |-> <<>>, notes |-> <<>>,
   rawResponse |-> NoRawResponse]

\* variant: the parse of the extracted text is not inside a try block
CatchExtract_uncaught(second) ==
  IF second.threw THEN Propagated ELSE Returned(second)

\* the inner try block around the parse of the extracted text
CatchExtract(second) ==
  IF second.threw THEN FellThrough ELSE Returned(second)

\* the text from the first "{" to the last "}", if both are there in order
ExtractBetween(cleanedText, firstBrace, lastBrace) ==
  IF firstBrace >= 1 /\ lastBrace > firstBrace
    THEN CatchExtract(tryParse(SubSeq(cleanedText, firstBrace, lastBrace)))
    ELSE FellThrough

extractAndParse(cleanedText) ==
  ExtractBetween(cleanedText, IndexOf(cleanedText, "{"),
                 LastIndexOf(cleanedText, "}"))

\* variant: the fallback does not keep the raw response
rawFallback_noRawResponse(cleanedText) ==
  [returned |-> TRUE, threw |-> FALSE, transcript |-> Trim(cleanedText),
   notes |-> <<>>, rawResponse |-> NoRawResponse]

\* the raw response fallback
rawFallback(cleanedText) ==
  [returned |-> TRUE, threw |-> FALSE, transcript |-> Trim(cleanedText),
   notes |-> <<>>, rawResponse |-> RawResponse(Trim(cleanedText))]

\* the catch block of the outer try
SecondLayer(cleanedText, second) ==
  IF second.returned \/ second.threw THEN second ELSE rawFallback(cleanedText)

\* variant: the text between the braces is tried before the whole text
FirstLayer_extractFirst(cleanedText, first) ==
  SecondLayer(cleanedText, extractAndParse(cleanedText))

\* the outer try block
FirstLayer(cleanedText, first) ==
  IF ~first.threw
    THEN Returned(first)
    ELSE SecondLayer(cleanedText, extractAndParse(cleanedText))

ParseCleaned(cleanedText) == FirstLayer(cleanedText, tryParse(cleanedText))

parseGeminiText(rawText) == ParseCleaned(stripCodeFence(rawText))

\* ------------------------------------------------------------------ inputs
UrlCandidates ==
  { <<>>,
    <<" ", " ">>,
    <<"n","o","t"," ","a"," ","u","r","l">>,
    <<"f","t","p",":","/","/","x">>,
    <<"h","t","t","p",":","/","/","a">>,
    <<" ","H","T","T","P","S",":","/","/","a"," ">>,
    <<"h","t","t","p","x",":","a">>,
    <<"h","t","t","p",":","/","/">> }

NoFile == [present |-> FALSE, name |-> "", type |-> <<>>, size |-> <<0, 0>>]

FileTypes == { <<"v","i","d","e","o","/","m","p","4">>,
               <<"t","e","x","t","/","x">>,
               <<>> }

FileSizes == { <<0, 1>>, <<2048, 0>>, <<2048, 1>> }

FileCandidates ==
  {NoFile} \cup
  { [present |-> TRUE, name |-> "clip", type |-> t, size |-> z] :
      t \in FileTypes, z \in FileSizes }

ApiKeyCandidates == { <<>>, <<" ">>, <<"k">> }

\* the forms a run is started with: every URL without a file, and every file
\* with no URL or with a valid one
FormCandidates ==
  { <<u, NoFile>> : u \in UrlCandidates } \cup
  { <<u, f>> : u \in { <<>>, <<"h","t","t","p",":","/","/","a">> },
               f \in FileCandidates }

ContentTypes == {"multipart/form-data", "application/json"}

\* ----------------------------------------------------------- remote replies
\* state of a Gemini file as the API reports it; "" is a reply without one
FileStates == {"PROCESSING", "ACTIVE", "FAILED", "STATE_UNSPECIFIED", ""}

\* the file object of an upload reply: fields may be missing ("")
UploadReplies ==
  [name : {"", "files/1"}, uri : {"", "uri@upload"},
   mimeType : {"", "mime@upload"}, state : FileStates]

\* the file object of a status reply
StatusReplies ==
  [name : {"files/1"}, uri : {"", "uri@status"},
   mimeType : {"", "mime@status"}, state : FileStates]

NoHandle == [name |-> "", uri |-> "", mimeType |-> "", state |-> ""]

\* raw text of a generation reply
\* the round trip of the format the prompt asks for
RawText_object ==
  << "{","\"","t","r","a","n","s","c","r","i","p","t","\"",":","\"","h","e",
     "l","l","o","\"",",","\"","n","o","t","e","s","\"",":","[","\"","a",
     "\"",",","\"","b","\"","]","}" >>
\* a fenced object whose notes are one string of two lines
RawText_fenced ==
  << Backtick,Backtick,Backtick,"j","s","o","n","\n","{","\"","t","r","a",
     "n","s","c","r","i","p","t","\"",":","\"","x","\"",",","\"","n","o",
     "t","e","s","\"",":","\"","-"," ","o","n","e","\\","n","-"," ","t","w",
     "o","\"","}","\n",Backtick,Backtick,Backtick >>
\* text that is not JSON
RawText_plain ==
  << "n","o","t"," ","j","s","o","n"," ","a","t"," ","a","l","l" >>
\* an object inside other text
RawText_embedded ==
  << "N","o","t","e",":"," ","{","\"","t","r","a","n","s","c","r","i","p",
     "t","\"",":","\"","t","\"",",","\"","n","o","t","e","s","\"",":","[",
     "]","}"," ","e","n","d","." >>
\* JSON that is not an object
RawText_null ==
  << "n","u","l","l" >>
RawText_number ==
  << "5" >>
RawText_string ==
  << "\"","s","\"" >>
RawText_array ==
  << "[","1","]" >>
RawText_true ==
  << "t","r","u","e" >>
\* an array around an object: the whole text parses, and so would the text
\* between the braces
RawText_arrayOfObject ==
  << "[","{","\"","t","r","a","n","s","c","r","i","p","t","\"",":","\"","i",
     "n","\"","}","]" >>
\* objects whose fields have other types
RawText_numberTranscript ==
  << "{","\"","t","r","a","n","s","c","r","i","p","t","\"",":","5","}" >>
RawText_mixedNotes ==
  << "{","\"","t","r","a","n","s","c","r","i","p","t","\"",":","\""," ","a",
     " ","\"",",","\"","n","o","t","e","s","\"",":","[","\""," ","x"," ",
     "\"",",","\"","\"",",","1",",","n","u","l","l",",","[","2",",","n","u",
     "l","l","]",",","{","}","]","}" >>
\* notes as an array whose entries carry markers, blanks and an empty string
RawText_dashArray ==
  << "{","\"","n","o","t","e","s","\"",":","[","\"","-"," ","y"," ","\"",",",
     "\"","\"",",","\""," "," ","\"",",","\""," ","z","\"","]","}" >>
RawText_bullets ==
  << "{","\"","n","o","t","e","s","\"",":","\"",Bullet," ","a","\\","n",
     "\\","n"," ","-"," ","b","\"","}" >>
\* text with unbalanced braces
RawText_unclosed ==
  << "{","\"","t","r","a","n","s","c","r","i","p","t","\"",":","\"","a","\"" >>
RawText_reversed ==
  << "}"," ","{" >>
RawText_badObject ==
  << "{"," ","x"," ","}" >>
RawText_embeddedBad ==
  << "a"," ","{","\"","t","r","a","n","s","c","r","i","p","t","\"",":","5",
     "}"," ","b" >>
\* text that is empty once trimmed
RawText_blank ==
  << " "," " >>
\* fenced text that is not JSON
RawText_fencedPlain ==
  << Backtick,Backtick,Backtick,"\n","s","o","r","r","y","\n",Backtick,
     Backtick,Backtick >>
RawText_upperFence ==
  << Backtick,Backtick,Backtick,"J","S","O","N","\n","{","}","\n",Backtick,
     Backtick,Backtick >>

\* <<>> is a reply without text
RawTexts ==
  { <<>>, RawText_object, RawText_fenced, RawText_plain,
    RawText_embedded, RawText_null, RawText_number,
    RawText_string, RawText_array, RawText_true,
    RawText_arrayOfObject, RawText_dashArray,
    RawText_numberTranscript, RawText_mixedNotes, RawText_bullets,
    RawText_unclosed, RawText_reversed, RawText_badObject,
    RawText_embeddedBad, RawText_blank, RawText_fencedPlain,
    RawText_upperFence }

\* raw texts of the replies to the endpoint's library
LibRawTexts == { <<>>, RawText_object, RawText_plain }

\* parseGeminiText(rawText) of every reply
ParsedReplies == [rawText \in RawTexts |-> parseGeminiText(rawText)]

\* ------------------------------------------ responses of POST /api/process
\* records as the endpoint serialises them, JSON.stringify(event)
Line_statusA ==
  << "{","\"","t","y","p","e","\"",":","\"","s","t","a","t","u","s","\"",
     ",","\"","p","h","a","s","e","\"",":","\"","a","\"",",","\"","m","e",
     "s","s","a","g","e","\"",":","\"","m","\"","}" >>
Line_result ==
  << "{","\"","t","y","p","e","\"",":","\"","r","e","s","u","l","t","\"",
     ",","\"","d","a","t","a","\"",":","{","}","}" >>
Line_error ==
  << "{","\"","t","y","p","e","\"",":","\"","e","r","r","o","r","\"",",",
     "\"","m","e","s","s","a","g","e","\"",":","\"","e","\"","}" >>
\* bodies of responses that are no stream: the endpoint's rejection of the
\* content type, and a page of a gateway
Body_rejected ==
  << "{","\"","e","r","r","o","r","\"",":","\"","x","\"","}" >>
Body_gateway ==
  << "o","o","p","s" >>

\* `${JSON.stringify(event)}\n` for every record written, in order
RECURSIVE Ndjson(_)
Ndjson(lines) ==
  IF lines = <<>> THEN <<>>
  ELSE Head(lines) \o << "\n" >> \o Ndjson(Tail(lines))

StreamResponse(lines) == [status |-> 200, lines |-> lines, text |-> Ndjson(lines)]
PlainResponse(code, body) == [status |-> code, lines |-> <<>>, text |-> body]
NoResponse == [status |-> 0, lines |-> <<>>, text |-> <<>>]

\* what the server sends to one request: a stream that ends with a result,
\* one that ends with an error, one that ends with neither, one that goes
\* on with a status record after its result, and two responses that are no
\* stream
Responses ==
  { StreamResponse(<< Line_statusA, Line_result >>),
    StreamResponse(<< Line_statusA, Line_error >>),
    StreamResponse(<< Line_statusA >>),
    StreamResponse(<< Line_statusA, Line_result, Line_statusA >>),
    PlainResponse(400, Body_rejected),
    PlainResponse(502, Body_gateway) }

\* the forms the streaming client is submitted with
ClientFormCandidates ==
  { << <<>>, NoFile >>,
    << <<"h","t","t","p",":","/","/","a">>, NoFile >>,
    << <<>>, [present |-> TRUE, name |-> "clip",
              type |-> <<"v","i","d","e","o","/","m","p","4">>,
              size |-> <<0, 1>>] >> }

\* -------------------------------------------------------------------- state
VARIABLES
  host,             \* "page" or "route"
  videoUrl,         \* the URL field as typed / posted
  file,             \* the chosen file, or NoFile
  apiKey,           \* page: the key field; route: GEMINI_API_KEY
  contentType,      \* route: the request's content-type header
  pc,               \* where the run is suspended
  source,           \* the source the run settled on: "none", "youtube", "upload"
  uploadedFile,     \* the handle the run holds
  delayMs,          \* the poller's delay
  attempt,          \* the poller's attempt counter
  lastResp,         \* state of the latest status reply, "none" before any
  firstResp,        \* state of the first status reply, "none" before any
  status,           \* page: Status
  statusDetail,     \* page: statusDetail
  error,            \* page: the error shown; route: the error the run threw
  result,           \* page: the result shown; route: the library's return value
  activeSourceType, \* page: activeSourceType
  activityLog,      \* page: the activity log (last five entries)
  records,          \* route: the records written to the response stream
  writer,           \* route: "none", "open", "errored", "closed"
  closeCalled,      \* route: writer.close() was called
  cancelled,        \* route: the caller went away
  trace,            \* history: status events, remote calls and sleeps, in order
  wire,             \* client: the response the server sends to the request
  xhr,              \* client: the XMLHttpRequest: status, responseText, upload
  lastResponseIndex, \* client: length of responseText already consumed
  responseBuffer,   \* client: the received text of the record not yet complete
  client,           \* client: the page's state and the flags of the request
  handled,          \* history: the events given to handleStreamEvent, in order
  runs,             \* two runs side by side: each run's stream and backoff state
  requests          \* client: the requests of two submissions side by side

vars == << host, videoUrl, file, apiKey, contentType, pc, source, uploadedFile,
           delayMs, attempt, lastResp, firstResp, status, statusDetail, error,
           result, activeSourceType, activityLog, records, writer, closeCalled,
           cancelled, trace, wire, xhr, lastResponseIndex, responseBuffer,
           client, handled, runs, requests >>

clientVars == << wire, xhr, lastResponseIndex, responseBuffer, client, handled >>
inputVars == << host, videoUrl, file, apiKey, contentType >>
pageVars == << status, statusDetail, activeSourceType, activityLog >>
routeVars == << records, writer, closeCalled, cancelled >>
pollVars == << delayMs, attempt, lastResp, firstResp >>

NoResult ==
  [present |-> FALSE, source |-> "none", model |-> "", rawText |-> <<>>,
   transcript |-> <<>>, notes |-> <<>>, rawResponse |-> NoRawResponse]

\* setResult({ transcript, notes, source, debug: { model }, rawResponse })
Result(src, rawText, parsed) ==
  [present |-> TRUE, source |-> src, model |-> GEMINI_MODEL, rawText |-> rawText,
   transcript |-> parsed.transcript, notes |-> parsed.notes,
   rawResponse |-> parsed.rawResponse]

\* ------------------------------------------------------------------ history
Call(op) == [kind |-> "call", name |-> op, attempt |-> 0, ms |-> 0]
CallGenerate(attached) ==
  [kind |-> "call", name |-> "generate", attempt |-> IF attached THEN 1 ELSE 0, ms |-> 0]
Emit(phase) == [kind |-> "emit", name |-> phase, attempt |-> 0, ms |-> 0]
EmitProcessing(n, ms) ==
  [kind |-> "emit", name |-> "file-processing", attempt |-> n, ms |-> ms]
Sleep(ms) == [kind |-> "sleep", name |-> "sleep", attempt |-> 0, ms |-> ms]

\* the client before a request: useState("idle"), useState(null), ...
NoText == [kind |-> "null", fixed |-> "", text |-> <<>>]
NoData == [defined |-> FALSE, v |-> JsonNull]
NoXhr == [status |-> 0, responseText |-> <<>>, uploadComplete |-> FALSE]
ClientInit ==
  [status |-> "idle", statusDetail |-> NoText, error |-> NoText,
   result |-> NoData, serverLog |-> <<>>, hasResult |-> FALSE,
   hadError |-> FALSE]

\* a request of the streaming client that is not under way: its response,
\* the number of records handled, and the locals of its handleSubmit
IdleRequest ==
  [pc |-> "idle", wire |-> NoResponse, next |-> 1, uploadComplete |-> FALSE,
   hasResult |-> FALSE, hadError |-> FALSE]

\* the runs that are looked at side by side, and a run not yet started
Runs == {1, 2}
IdleRun ==
  [pc |-> "idle", writer |-> "none", records |-> <<>>, delayMs |-> 0,
   attempt |-> 0, replies |-> <<>>]

Init ==
  /\ host \in {"page", "route", "client"}
  /\ \E form \in (IF host = "client" THEN ClientFormCandidates
                  ELSE FormCandidates) :
       /\ videoUrl = form[1]
       /\ file = form[2]
  /\ apiKey \in (CASE host = "page" -> ApiKeyCandidates
                   [] host = "route" -> { <<>>, <<"k">> }
                   [] OTHER -> { <<>> })
  /\ contentType \in (IF host = "route" THEN ContentTypes ELSE {"multipart/form-data"})
  /\ pc = "idle"
  /\ source = "none"
  /\ uploadedFile = NoHandle
  /\ delayMs = 0
  /\ attempt = 0
  /\ lastResp = "none"
  /\ firstResp = "none"
  /\ status = "idle"
  /\ statusDetail = "null"
  /\ error = "null"
  /\ result = NoResult
  /\ activeSourceType = "null"
  /\ activityLog = <<>>
  /\ records = <<>>
  /\ writer = "none"
  /\ closeCalled = FALSE
  /\ cancelled = FALSE
  /\ trace = <<>>
  /\ wire = NoResponse
  /\ xhr = NoXhr
  /\ lastResponseIndex = 0
  /\ responseBuffer = <<>>
  /\ client = ClientInit
  /\ handled = <<>>
  /\ runs = [r \in Runs |-> IdleRun]
  /\ requests = [r \in Runs |-> IdleRequest]

\* ====================================================================
\* The browser page: handleSubmit and its helpers
\* ====================================================================
LastN(s, n) == IF Len(s) <= n THEN s ELSE SubSeq(s, Len(s) - n + 1, Len(s))

\* (ms / 1000).toFixed(1), in tenths of a second
formatBackoffSeconds(ms) == (ms + 50) \div 100

LogEntry(message, phase) ==
  [message |-> message, phase |-> phase, attempt |-> 0, tenths |-> 0]

\* variant: the entry announces the delay of the sleep after the next one
ProcessingEntry_doubled(n, ms) ==
  [message |-> "Gemini file still PROCESSING.", phase |-> "file-processing",
   attempt |-> n, tenths |-> formatBackoffSeconds(2 * ms)]

\* the entry waitForGeminiFileActive hands to onStatus
ProcessingEntry(n, ms) ==
  [message |-> "Gemini file still PROCESSING.", phase |-> "file-processing",
   attempt |-> n, tenths |-> formatBackoffSeconds(ms)]

\* variant: the log keeps the newest entry only
appendActivityLog_latest(log, entry) == << entry >>

\* setActivityLog((previous) => [...previous.slice(-4), entry])
appendActivityLog(log, entry) == Append(LastN(log, 4), entry)

\* variant: the doubling without the cap
NextDelay_uncapped(d) == d * 2

\* delayMs = Math.min(delayMs * 2, FILE_ACTIVE_POLL_MAX_MS)
NextDelay(d) == Min(d * 2, FILE_ACTIVE_POLL_MAX_MS)

\* variant: the poller without the check for failure states
PollOutcome_onlyActive(state) ==
  IF state = "ACTIVE" THEN "return" ELSE "continue"

\* variant: the poller gives up on every state but ACTIVE
PollOutcome_strict(state) ==
  IF state = "ACTIVE" THEN "return"
  ELSE IF state # "" THEN "throw"
  ELSE "continue"

\* what the poller does with the state of a status reply
PollOutcome(state) ==
  IF state = "ACTIVE" THEN "return"
  ELSE IF state # "" /\ state # "PROCESSING" THEN "throw"
  ELSE "continue"

\* variant: the name of the handle is not looked at
MissingMetadata_noName(h) == h.uri = "" \/ h.mimeType = ""

\* !uploadedFile.uri || !uploadedFile.mimeType || !uploadedFile.name
MissingMetadata(h) == h.uri = "" \/ h.mimeType = "" \/ h.name = ""

\* uploadedFile.state === "PROCESSING"
NeedsPolling(h) == h.state = "PROCESSING"

\* variant: the button is disabled only while the status is uploading
SubmitDisabled_uploadingOnly(st) == st = "uploading"

\* disabled={status === "uploading" || status === "processing"} of the
\* submit button, the same on both pages
SubmitDisabled(st) == st \in {"uploading", "processing"}

\* variant: a failed request sends the run back to the start of the upload
PageCatch_retry(kind) ==
  /\ status' = "error"
  /\ statusDetail' = "Request failed before completion."
  /\ error' = kind
  /\ pc' = IF kind = "TransportError" THEN "p_startUpload" ELSE "p_returned"

\* the catch block of handleSubmit
PageCatch(kind) ==
  /\ status' = "error"
  /\ statusDetail' = "Request failed before completion."
  /\ error' = kind
  /\ pc' = "p_returned"

\* variant: the entry for the generation request carries the phase of the
\* upload's first entry
PageSendGenerateForUpload_wrongPhase(log, tr) ==
  /\ status' = "processing"
  /\ statusDetail' = "Upload complete. Asking Gemini for transcript."
  /\ activityLog' = appendActivityLog(log,
        LogEntry("Upload complete. Sending generation request.", "upload-start"))
  /\ source' = "upload"
  /\ trace' = tr \o << Emit("upload-start"), CallGenerate(TRUE) >>
  /\ pc' = "p_generate"

\* lines 507-549: the generation request for an uploaded file is sent
PageSendGenerateForUpload(log, tr) ==
  /\ status' = "processing"
  /\ statusDetail' = "Upload complete. Asking Gemini for transcript."
  /\ activityLog' = appendActivityLog(log,
        LogEntry("Upload complete. Sending generation request.", "generate-start"))
  /\ source' = "upload"
  /\ trace' = tr \o << Emit("generate-start"), CallGenerate(TRUE) >>
  /\ pc' = "p_generate"

\* handleSubmit up to its first await
handleSubmit ==
  /\ host = "page"
  /\ pc = "idle"
  /\ ~SubmitDisabled(status)
  /\ result' = NoResult
  /\ LET trimmedUrl == Trim(videoUrl)
     IN  IF CredentialMissing(apiKey)
           THEN /\ error' = "MissingCredential"
                /\ statusDetail' = "null"
                /\ pc' = "p_returned"
                /\ UNCHANGED << status, activeSourceType, activityLog, source, trace >>
         ELSE IF NoUsableInput(videoUrl, file)
           THEN /\ error' = "MissingInput"
                /\ statusDetail' = "null"
                /\ pc' = "p_returned"
                /\ UNCHANGED << status, activeSourceType, activityLog, source, trace >>
         ELSE IF trimmedUrl # <<>>
           THEN /\ activityLog' = <<>>
                /\ IF ~IsHttpUrl(trimmedUrl)
                     THEN /\ PageCatch("InvalidLocator")
                          /\ activeSourceType' = "null"
                          /\ UNCHANGED << source, trace >>
                     ELSE /\ status' = "processing"
                          /\ statusDetail' = "null"
                          /\ error' = "null"
                          /\ activeSourceType' = "youtube"
                          /\ source' = "youtube"
                          /\ trace' = Append(trace, CallGenerate(FALSE))
                          /\ pc' = "p_generate"
         ELSE /\ activeSourceType' = "upload"
              /\ IF ~IsVideoType(file.type)
                   THEN /\ PageCatch("UnsupportedMediaType")
                        /\ activityLog' = <<>>
                        /\ UNCHANGED << source, trace >>
                 ELSE IF BytesGreater(file.size, MAX_UPLOAD_BYTES)
                   THEN /\ PageCatch("PayloadTooLarge")
                        /\ activityLog' = <<>>
                        /\ UNCHANGED << source, trace >>
                 ELSE /\ status' = "uploading"
                      /\ statusDetail' = "Starting Gemini Files API upload."
                      /\ error' = "null"
                      /\ activityLog' = appendActivityLog(<<>>,
                            LogEntry("Starting Gemini Files API upload.", "upload-start"))
                      /\ trace' = trace \o << Emit("upload-start"), Call("beginUpload") >>
                      /\ pc' = "p_startUpload"
                      /\ UNCHANGED source
  /\ UNCHANGED << inputVars, runs, requests, clientVars, uploadedFile, pollVars, routeVars >>

\* startGeminiUpload returns or throws; on success uploadGeminiFile is started
startGeminiUpload ==
  /\ host = "page"
  /\ pc = "p_startUpload"
  /\ \E reply \in {"ok", "notOk", "noUploadUrl"} :
       IF reply = "ok"
         THEN /\ trace' = Append(trace, Call("sendPayload"))
              /\ pc' = "p_sendPayload"
              /\ UNCHANGED << status, statusDetail, error >>
         ELSE /\ PageCatch("TransportError")
              /\ UNCHANGED trace
  /\ UNCHANGED << inputVars, runs, requests, clientVars, source, uploadedFile, pollVars, result,
                  activeSourceType, activityLog, routeVars >>

\* uploadGeminiFile settles; handleSubmit runs on to its next await
uploadGeminiFile ==
  /\ host = "page"
  /\ pc = "p_sendPayload"
  /\ \/ /\ \E failure \in {"status>=400", "unparsable", "network"} :
             PageCatch("TransportError")
        /\ UNCHANGED << source, uploadedFile, pollVars, activityLog, trace >>
     \/ \E h \in UploadReplies :
          IF MissingMetadata(h)
            THEN /\ PageCatch("TransportError")
                 /\ uploadedFile' = h
                 /\ UNCHANGED << source, pollVars, activityLog, trace >>
          ELSE LET log1 == appendActivityLog(activityLog,
                              LogEntry("Gemini upload complete.", "upload-complete"))
                   tr1 == Append(trace, Emit("upload-complete"))
               IN  /\ uploadedFile' = h
                   /\ error' = error
                   /\ IF NeedsPolling(h)
                        THEN /\ statusDetail' = "Waiting for Gemini to finish processing the upload."
                             /\ activityLog' = log1
                             /\ delayMs' = FILE_ACTIVE_POLL_INITIAL_MS
                             /\ attempt' = 1
                             /\ trace' = Append(tr1, Call("getFileStatus"))
                             /\ pc' = "p_poll"
                             /\ UNCHANGED << status, source, lastResp, firstResp >>
                        ELSE /\ PageSendGenerateForUpload(log1, tr1)
                             /\ UNCHANGED pollVars
  /\ UNCHANGED << inputVars, runs, requests, clientVars, result, activeSourceType, routeVars >>

\* one status reply arrives in waitForGeminiFileActive
waitForGeminiFileActive ==
  /\ host = "page"
  /\ pc = "p_poll"
  /\ \/ /\ PageCatch("TransportError")
        /\ lastResp' = "notOk"
        /\ firstResp' = IF firstResp = "none" THEN "notOk" ELSE firstResp
        /\ UNCHANGED << source, uploadedFile, delayMs, attempt, activityLog, trace >>
     \/ \E r \in StatusReplies :
          /\ lastResp' = r.state
          /\ firstResp' = IF firstResp = "none" THEN r.state ELSE firstResp
          /\ CASE PollOutcome(r.state) = "return" ->
                    /\ uploadedFile' =
                         [uploadedFile EXCEPT
                            !.uri = IF r.uri # "" THEN r.uri ELSE @,
                            !.mimeType = IF r.mimeType # "" THEN r.mimeType ELSE @]
                    /\ PageSendGenerateForUpload(activityLog, trace)
                    /\ UNCHANGED << error, delayMs, attempt >>
               [] PollOutcome(r.state) = "throw" ->
                    /\ PageCatch("RemoteProcessingFailed")
                    /\ UNCHANGED << source, uploadedFile, delayMs, attempt,
                                    activityLog, trace >>
               [] OTHER ->
                    /\ attempt <= MaxPolls
                    /\ activityLog' = appendActivityLog(activityLog,
                                         ProcessingEntry(attempt, delayMs))
                    /\ trace' = trace \o << EmitProcessing(attempt, delayMs),
                                            Sleep(delayMs) >>
                    /\ pc' = "p_sleep"
                    /\ UNCHANGED << source, uploadedFile, delayMs, attempt,
                                    status, statusDetail, error >>
  /\ UNCHANGED << inputVars, runs, requests, clientVars, result, activeSourceType, routeVars >>

\* the sleep ends: back off and ask again
waitForGeminiFileActive_wake ==
  /\ host = "page"
  /\ pc = "p_sleep"
  /\ delayMs' = NextDelay(delayMs)
  /\ attempt' = attempt + 1
  /\ trace' = Append(trace, Call("getFileStatus"))
  /\ pc' = "p_poll"
  /\ UNCHANGED << inputVars, runs, requests, clientVars, source, uploadedFile, lastResp, firstResp, status, statusDetail,
                  error, result, activeSourceType, activityLog, routeVars >>

\* the generation reply arrives
handleSubmit_generated ==
  /\ host = "page"
  /\ pc = "p_generate"
  /\ \/ /\ PageCatch("TransportError")
        /\ UNCHANGED result
     \/ \E rawText \in RawTexts :
          IF rawText = <<>>
            THEN /\ PageCatch("TransportError")
                 /\ UNCHANGED result
          ELSE IF ParsedReplies[rawText].threw
            THEN /\ PageCatch("ParserError")
                 /\ UNCHANGED result
            ELSE /\ result' = Result(source, rawText, ParsedReplies[rawText])
                 /\ status' = "done"
                 /\ statusDetail' = "Complete. Transcript and notes are ready."
                 /\ pc' = "p_returned"
                 /\ UNCHANGED error
  /\ UNCHANGED << inputVars, runs, requests, clientVars, source, uploadedFile, pollVars, activeSourceType,
                  activityLog, routeVars, trace >>

\* the fields of the form are edited after a run has returned (the onChange
\* handlers of the key, the URL and the file); what the page shows stays,
\* and the next handleSubmit starts with locals of its own
onChange ==
  /\ host = "page"
  /\ pc = "p_returned"
  /\ \E form \in FormCandidates, key \in ApiKeyCandidates :
       /\ videoUrl' = form[1]
       /\ file' = form[2]
       /\ apiKey' = key
  /\ pc' = "idle"
  /\ source' = "none"
  /\ uploadedFile' = NoHandle
  /\ delayMs' = 0
  /\ attempt' = 0
  /\ lastResp' = "none"
  /\ firstResp' = "none"
  /\ trace' = <<>>
  /\ UNCHANGED << host, contentType, runs, requests, clientVars, pageVars, error, result,
                  routeVars >>

PageNext ==
  \/ handleSubmit
  \/ startGeminiUpload
  \/ uploadGeminiFile
  \/ waitForGeminiFileActive
  \/ waitForGeminiFileActive_wake
  \/ handleSubmit_generated

\* ====================================================================
\* The streaming endpoint: POST /api/process
\* ====================================================================
StatusRecord(phase) ==
  [type |-> "status", phase |-> phase, attempt |-> 0, nextDelayMs |-> 0]
ErrorRecord == [type |-> "error", phase |-> "", attempt |-> 0, nextDelayMs |-> 0]
ResultRecord == [type |-> "result", phase |-> "", attempt |-> 0, nextDelayMs |-> 0]

\* variant: mapStatus without the case for file-active
mapStatus_noFileActive(update) ==
  CASE update.name = "upload-start" -> StatusRecord("uploading")
    [] update.name = "upload-complete" -> StatusRecord("upload-complete")
    [] update.name = "file-processing" ->
         [type |-> "status", phase |-> "file-processing",
          attempt |-> update.attempt, nextDelayMs |-> update.ms]
    [] update.name = "generate-start" -> StatusRecord("generate-start")
    [] update.name = "generate-received" -> StatusRecord("generate-received")
    [] OTHER -> StatusRecord("update")

\* mapStatus: the record written for a status update of the library
mapStatus(update) ==
  CASE update.name = "upload-start" -> StatusRecord("uploading")
    [] update.name = "upload-complete" -> StatusRecord("upload-complete")
    [] update.name = "file-processing" ->
         [type |-> "status", phase |-> "file-processing",
          attempt |-> update.attempt, nextDelayMs |-> update.ms]
    [] update.name = "file-active" -> StatusRecord("file-active")
    [] update.name = "generate-start" -> StatusRecord("generate-start")
    [] update.name = "generate-received" -> StatusRecord("generate-received")
    [] OTHER -> StatusRecord("update")

\* await send(event) inside the try block: the record is written and the run
\* goes on at `next`, or the write is rejected and the run enters the catch
\* block
send(event, next) ==
  IF writer = "open"
    THEN /\ records' = Append(records, event)
         /\ pc' = next
    ELSE /\ records' = records
         /\ pc' = "r_catch"

\* POST up to the return of the response
POST ==
  /\ host = "route"
  /\ pc = "idle"
  /\ IF contentType # "multipart/form-data"
       THEN /\ pc' = "r_rejected"
            /\ writer' = writer
       ELSE /\ pc' = "r_received"
            /\ writer' = "open"
  /\ UNCHANGED << inputVars, runs, requests, clientVars, source, uploadedFile, pollVars, pageVars, error,
                  result, records, closeCalled, cancelled, trace >>

\* the "received" record
POST_received ==
  /\ host = "route"
  /\ pc = "r_received"
  /\ send(StatusRecord("received"), "r_formData")
  /\ UNCHANGED << inputVars, runs, requests, clientVars, source, uploadedFile, pollVars, pageVars, error,
                  result, writer, closeCalled, cancelled, trace >>

\* req.formData(), the validation of the fields and the record that follows
POST_validate ==
  /\ host = "route"
  /\ pc = "r_formData"
  /\ \E bodyOk \in BOOLEAN :
       LET trimmedUrl == Trim(videoUrl)
       IN  IF ~bodyOk
             THEN /\ pc' = "r_catch"
                  /\ error' = "BadRequestBody"
                  /\ UNCHANGED << source, records >>
           ELSE IF NoUsableInput(videoUrl, file)
             THEN /\ send(ErrorRecord, "r_finally")
                  /\ error' = "MissingInput"
                  /\ UNCHANGED source
           ELSE IF file.present /\ ~IsVideoType(file.type)
             THEN /\ send(ErrorRecord, "r_finally")
                  /\ error' = "UnsupportedMediaType"
                  /\ UNCHANGED source
           ELSE IF file.present /\ BytesGreater(file.size, MAX_UPLOAD_BYTES)
             THEN /\ send(ErrorRecord, "r_finally")
                  /\ error' = "PayloadTooLarge"
                  /\ UNCHANGED source
           ELSE IF ~file.present /\ ~IsHttpUrl(trimmedUrl)
             THEN /\ send(ErrorRecord, "r_finally")
                  /\ error' = "InvalidLocator"
                  /\ UNCHANGED source
           ELSE /\ source' = IF file.present THEN "upload" ELSE "youtube"
                /\ send(StatusRecord("processing"), "l_entry")
                /\ UNCHANGED error
  /\ UNCHANGED << inputVars, runs, requests, clientVars, uploadedFile, pollVars, pageVars, result, writer,
                  closeCalled, cancelled, trace >>

\* the result record, after transcribeWithGemini returned
POST_result ==
  /\ host = "route"
  /\ pc = "r_result"
  /\ send(ResultRecord, "r_finally")
  /\ UNCHANGED << inputVars, runs, requests, clientVars, source, uploadedFile, pollVars, pageVars, error,
                  result, writer, closeCalled, cancelled, trace >>

\* variant: a catch block that writes nothing
POST_catch_silent ==
  /\ host = "route"
  /\ pc = "r_catch"
  /\ pc' = "r_finally"
  /\ UNCHANGED << inputVars, runs, requests, clientVars, source, uploadedFile, pollVars, pageVars, error,
                  result, records, writer, closeCalled, cancelled, trace >>

\* the catch block: one error record, if it can still be written
POST_catch ==
  /\ host = "route"
  /\ pc = "r_catch"
  /\ records' = IF writer = "open" THEN Append(records, ErrorRecord) ELSE records
  /\ pc' = "r_finally"
  /\ UNCHANGED << inputVars, runs, requests, clientVars, source, uploadedFile, pollVars, pageVars, error,
                  result, writer, closeCalled, cancelled, trace >>

\* variant: the writer is closed only when no write was rejected
POST_finally_skipOnError ==
  /\ host = "route"
  /\ pc = "r_finally"
  /\ closeCalled' = (writer = "open")
  /\ writer' = IF writer = "open" THEN "closed" ELSE writer
  /\ pc' = "r_closed"
  /\ UNCHANGED << inputVars, runs, requests, clientVars, source, uploadedFile, pollVars, pageVars, error,
                  result, records, cancelled, trace >>

\* the finally block: writer.close()
POST_finally ==
  /\ host = "route"
  /\ pc = "r_finally"
  /\ closeCalled' = TRUE
  /\ writer' = IF writer = "open" THEN "closed" ELSE writer
  /\ pc' = "r_closed"
  /\ UNCHANGED << inputVars, runs, requests, clientVars, source, uploadedFile, pollVars, pageVars, error,
                  result, records, cancelled, trace >>

\* the caller disconnects: the readable side is cancelled and every later
\* write is rejected
ClientDisconnect ==
  /\ host = "route"
  /\ writer = "open"
  /\ writer' = "errored"
  /\ cancelled' = TRUE
  /\ UNCHANGED << inputVars, runs, requests, clientVars, pc, source, uploadedFile, pollVars, pageVars, error,
                  result, records, closeCalled, trace >>

\* --------------------------------------------------------------------
\* transcribeWithGemini(source, { onStatus }) as the endpoint calls it.
\* Its status updates reach the stream through
\*   onStatus: async (update) => { await send(mapStatus(update)) }
\* --------------------------------------------------------------------

\* variant: every source is uploaded
SourceIsUpload_always(src) == TRUE

\* if (source.type === "upload")
SourceIsUpload(src) == src = "upload"

\* await onStatus(update): the record is written and the library goes on, or
\* the rejected write ends the library call
onStatus(update, next) ==
  /\ send(mapStatus(update), next)
  /\ error' = IF writer = "open" THEN error ELSE "WriteFailed"

\* the library throws
LibThrow(kind) ==
  /\ error' = kind
  /\ pc' = "r_catch"
  /\ records' = records

\* entry: the credential check, then the first step of either source kind
transcribeWithGemini ==
  /\ host = "route"
  /\ pc = "l_entry"
  /\ IF apiKey = <<>>
       THEN /\ LibThrow("MissingCredential")
            /\ UNCHANGED trace
     ELSE IF ~SourceIsUpload(source)
       THEN /\ pc' = "l_generateStart"
            /\ UNCHANGED << error, records, trace >>
     ELSE /\ onStatus(Emit("upload-start"), "l_beginUpload")
          /\ trace' = IF writer = "open"
                        THEN trace \o << Emit("upload-start"), Call("beginUpload") >>
                        ELSE trace
  /\ UNCHANGED << inputVars, runs, requests, clientVars, source, uploadedFile, pollVars, pageVars, result,
                  writer, closeCalled, cancelled >>

\* beginUpload returns the session locator or fails
transcribeWithGemini_beginUpload ==
  /\ host = "route"
  /\ pc = "l_beginUpload"
  /\ \E reply \in {"ok", "notOk", "noSessionLocator"} :
       IF reply = "ok"
         THEN /\ trace' = Append(trace, Call("sendPayload"))
              /\ pc' = "l_sendPayload"
              /\ UNCHANGED << error, records >>
         ELSE /\ LibThrow("TransportError")
              /\ UNCHANGED trace
  /\ UNCHANGED << inputVars, runs, requests, clientVars, source, uploadedFile, pollVars, pageVars, result,
                  writer, closeCalled, cancelled >>

\* sendPayload returns the handle or fails
transcribeWithGemini_sendPayload ==
  /\ host = "route"
  /\ pc = "l_sendPayload"
  /\ \/ /\ LibThrow("TransportError")
        /\ UNCHANGED << uploadedFile, trace >>
     \/ \E h \in UploadReplies :
          IF MissingMetadata(h)
            THEN /\ LibThrow("TransportError")
                 /\ UNCHANGED << uploadedFile, trace >>
            ELSE /\ uploadedFile' = h
                 /\ onStatus(Emit("upload-complete"), "l_uploaded")
                 /\ trace' = IF writer = "open"
                               THEN Append(trace, Emit("upload-complete"))
                               ELSE trace
  /\ UNCHANGED << inputVars, runs, requests, clientVars, source, pollVars, pageVars, result, writer,
                  closeCalled, cancelled >>

\* the state of the new handle decides between polling, generating and failing
transcribeWithGemini_uploaded ==
  /\ host = "route"
  /\ pc = "l_uploaded"
  /\ CASE uploadedFile.state = "PROCESSING" ->
            /\ delayMs' = FILE_ACTIVE_POLL_INITIAL_MS
            /\ attempt' = 1
            /\ trace' = Append(trace, Call("getFileStatus"))
            /\ pc' = "l_poll"
            /\ UNCHANGED << error, records >>
       [] uploadedFile.state = "ACTIVE" ->
            /\ pc' = "l_generateStart"
            /\ UNCHANGED << error, records, delayMs, attempt, trace >>
       [] OTHER ->
            /\ LibThrow("RemoteProcessingFailed")
            /\ UNCHANGED << delayMs, attempt, trace >>
  /\ UNCHANGED << inputVars, runs, requests, clientVars, source, uploadedFile, lastResp, firstResp, pageVars, result,
                  writer, closeCalled, cancelled >>

\* one status reply arrives in the Backoff Poller
transcribeWithGemini_poll ==
  /\ host = "route"
  /\ pc = "l_poll"
  /\ \/ /\ LibThrow("TransportError")
        /\ lastResp' = "notOk"
        /\ firstResp' = IF firstResp = "none" THEN "notOk" ELSE firstResp
        /\ UNCHANGED << uploadedFile, trace >>
     \/ \E r \in StatusReplies :
          /\ lastResp' = r.state
          /\ firstResp' = IF firstResp = "none" THEN r.state ELSE firstResp
          /\ CASE PollOutcome(r.state) = "return" ->
                    /\ uploadedFile' = r
                    /\ onStatus(Emit("file-active"), "l_generateStart")
                    /\ trace' = IF writer = "open"
                                  THEN Append(trace, Emit("file-active"))
                                  ELSE trace
               [] PollOutcome(r.state) = "throw" ->
                    /\ LibThrow("RemoteProcessingFailed")
                    /\ UNCHANGED << uploadedFile, trace >>
               [] OTHER ->
                    /\ attempt <= MaxPolls
                    /\ UNCHANGED uploadedFile
                    /\ onStatus(EmitProcessing(attempt, delayMs), "l_sleep")
                    /\ trace' = IF writer = "open"
                                  THEN trace \o << EmitProcessing(attempt, delayMs),
                                                   Sleep(delayMs) >>
                                  ELSE trace
  /\ UNCHANGED << inputVars, runs, requests, clientVars, source, delayMs, attempt, pageVars, result, writer,
                  closeCalled, cancelled >>

\* the poll sleep ends: back off and ask again
transcribeWithGemini_wake ==
  /\ host = "route"
  /\ pc = "l_sleep"
  /\ delayMs' = NextDelay(delayMs)
  /\ attempt' = attempt + 1
  /\ trace' = Append(trace, Call("getFileStatus"))
  /\ pc' = "l_poll"
  /\ UNCHANGED << inputVars, runs, requests, clientVars, source, uploadedFile, lastResp, firstResp, pageVars, error,
                  result, routeVars >>

\* GenerateStart, then the generation request
transcribeWithGemini_generateStart ==
  /\ host = "route"
  /\ pc = "l_generateStart"
  /\ onStatus(Emit("generate-start"), "l_generate")
  /\ trace' = IF writer = "open"
                THEN trace \o << Emit("generate-start"),
                                 CallGenerate(SourceIsUpload(source)) >>
                ELSE trace
  /\ UNCHANGED << inputVars, runs, requests, clientVars, source, uploadedFile, pollVars, pageVars, result,
                  writer, closeCalled, cancelled >>

\* the generation reply arrives: GenerateReceived, parse, return
transcribeWithGemini_generated ==
  /\ host = "route"
  /\ pc = "l_generate"
  /\ \/ /\ LibThrow("TransportError")
        /\ UNCHANGED << result, trace >>
     \/ \E rawText \in LibRawTexts :
          IF rawText = <<>>
            THEN /\ LibThrow("TransportError")
                 /\ UNCHANGED << result, trace >>
          ELSE IF ParsedReplies[rawText].threw
            THEN /\ LibThrow("ParserError")
                 /\ UNCHANGED << result, trace >>
            ELSE /\ onStatus(Emit("generate-received"), "r_result")
                 /\ trace' = IF writer = "open"
                               THEN Append(trace, Emit("generate-received"))
                               ELSE trace
                 /\ result' = IF writer = "open"
                                THEN Result(source, rawText,
                                            ParsedReplies[rawText])
                                ELSE result
  /\ UNCHANGED << inputVars, runs, requests, clientVars, source, uploadedFile, pollVars, pageVars, writer,
                  closeCalled, cancelled >>

RouteNext ==
  \/ POST
  \/ POST_received
  \/ POST_validate
  \/ transcribeWithGemini
  \/ transcribeWithGemini_beginUpload
  \/ transcribeWithGemini_sendPayload
  \/ transcribeWithGemini_uploaded
  \/ transcribeWithGemini_poll
  \/ transcribeWithGemini_wake
  \/ transcribeWithGemini_generateStart
  \/ transcribeWithGemini_generated
  \/ POST_result
  \/ POST_catch
  \/ POST_finally

\* ====================================================================
\* The streaming client: the page that posts the form to /api/process
\* ====================================================================
Fixed(message) == [kind |-> "fixed", fixed |-> message, text |-> <<>>]

\* a property of an event as the page stores or shows it
FromEvent(property) ==
  IF property.defined /\ property.v.t = "str"
    THEN [kind |-> "event", fixed |-> "", text |-> property.v.s]
    ELSE [kind |-> "other", fixed |-> "", text |-> <<>>]

\* setServerLog((previous) => [...previous.slice(-4), { message, phase }])
appendServerLog(log, message, phase) ==
  Append(LastN(log, 4), [message |-> message, phase |-> phase])

EventType(event) ==
  FromEvent(GetProperty(event, <<"t","y","p","e">>)).text
EventMessage(event) ==
  FromEvent(GetProperty(event, <<"m","e","s","s","a","g","e">>))
EventPhase(event) ==
  FromEvent(GetProperty(event, <<"p","h","a","s","e">>))

handleStreamEvent(c, event) ==
  CASE EventType(event) = <<"s","t","a","t","u","s">> ->
         [c EXCEPT !.status = IF @ = "uploading" THEN "processing" ELSE @,
                   !.statusDetail = EventMessage(event),
                   !.serverLog = appendServerLog(@, EventMessage(event),
                                                 EventPhase(event))]
    [] EventType(event) = <<"r","e","s","u","l","t">> ->
         [c EXCEPT !.hasResult = TRUE,
                   !.result = GetProperty(event, <<"d","a","t","a">>),
                   !.status = "done",
                   !.statusDetail = Fixed("Complete. Transcript and notes are ready.")]
    [] EventType(event) = <<"e","r","r","o","r">> ->
         [c EXCEPT !.hadError = TRUE,
                   !.status = "error",
                   !.statusDetail = Fixed("Request failed before completion."),
                   !.error = EventMessage(event)]
    [] OTHER -> c

\* the body of the loop over the complete lines: a blank line is skipped; a
\* line JSON.parse rejects and an event that is null (reading its type
\* throws) end in the empty catch block
HandleLine(line, parsed, acc) ==
  IF Trim(line) = <<>> THEN acc
  ELSE IF ~parsed.ok \/ parsed.v.t = "null" THEN acc
  ELSE [client |-> handleStreamEvent(acc.client, parsed.v),
        handled |-> Append(acc.handled, parsed.v)]

RECURSIVE HandleLines(_, _, _)
HandleLines(lines, i, acc) ==
  IF i >= Len(lines) THEN acc
  ELSE HandleLines(lines, i + 1, HandleLine(lines[i], JSONparse(lines[i]), acc))

\* variant: the text after the last newline is not kept
Remainder_dropped(lines) == <<>>

\* responseBuffer = lines.pop() ?? ""
Remainder(lines) == lines[Len(lines)]

\* the lines of the buffer but the last are handled; the last is kept
SplitBuffer(lines, length, handledLines) ==
  [lastResponseIndex |-> length, responseBuffer |-> Remainder(lines),
   client |-> handledLines.client, handled |-> handledLines.handled]

\* parseResponseText on the text received so far
parseResponseText(responseText, index, buffer, acc) ==
  IF Len(responseText) <= index
    THEN [lastResponseIndex |-> index, responseBuffer |-> buffer,
          client |-> acc.client, handled |-> acc.handled]
    ELSE SplitBuffer(
           SplitLines(buffer \o SubSeq(responseText, index + 1, Len(responseText)),
                      <<>>),
           Len(responseText),
           HandleLines(
             SplitLines(buffer \o SubSeq(responseText, index + 1, Len(responseText)),
                        <<>>),
             1, acc))

ParsedSoFar ==
  parseResponseText(xhr.responseText, lastResponseIndex, responseBuffer,
                    [client |-> client, handled |-> handled])

\* handleSubmit of the streaming client when the form is empty
SubmitRejected(c) ==
  [c EXCEPT !.result = NoData,
            !.statusDetail = NoText,
            !.error = Fixed("Provide a YouTube link or choose a video file.")]

\* handleSubmit of the streaming client from its checks to xhr.send: the
\* page's state and the locals of the new request
SubmitAccepted(c, f) ==
  [c EXCEPT !.error = NoText,
            !.result = NoData,
            !.statusDetail = NoText,
            !.status = IF f.present THEN "uploading" ELSE "processing",
            !.serverLog = <<>>,
            !.hasResult = FALSE,
            !.hadError = FALSE]

\* the body of xhr.onerror
NetworkError(c) ==
  [c EXCEPT !.hadError = TRUE,
            !.status = "error",
            !.statusDetail = Fixed("Network error during upload."),
            !.error = Fixed("Network error during upload.")]

\* handleSubmit of the streaming client, up to xhr.send(formData)
handleSubmit_stream ==
  /\ host = "client"
  /\ pc = "idle"
  /\ ~SubmitDisabled(client.status)
  /\ IF Trim(videoUrl) = <<>> /\ ~file.present
       THEN /\ client' = SubmitRejected(client)
            /\ pc' = "c_returned"
            /\ UNCHANGED << wire, xhr >>
       ELSE /\ client' = SubmitAccepted(client, file)
            /\ xhr' = NoXhr
            /\ \E response \in Responses : wire' = response
            /\ pc' = "c_sent"
  /\ lastResponseIndex' = 0
  /\ responseBuffer' = <<>>
  /\ UNCHANGED << inputVars, runs, requests, source, uploadedFile, pollVars, pageVars, error,
                  result, routeVars, trace, handled >>

\* xhr.upload.onload: the request body has been sent
xhr_upload_onload ==
  /\ host = "client"
  /\ pc = "c_sent"
  /\ ~xhr.uploadComplete
  /\ xhr' = [xhr EXCEPT !.uploadComplete = TRUE]
  /\ client' = [client EXCEPT !.status = "processing"]
  /\ UNCHANGED << inputVars, runs, requests, pc, source, uploadedFile, pollVars, pageVars, error,
                  result, routeVars, trace, wire, lastResponseIndex,
                  responseBuffer, handled >>

\* the part of a response the endpoint writes before it has read the form:
\* its first record (gemini.ts:188-194), or all of a response that is no
\* stream
EarlyLength(response) ==
  IF response.lines = <<>> THEN Len(response.text)
  ELSE Len(response.lines[1]) + 1

\* the network hands the next character of the response to the request
xhr_receive ==
  /\ host = "client"
  /\ pc = "c_sent"
  /\ Len(xhr.responseText) < Len(wire.text)
  /\ xhr.uploadComplete \/ Len(xhr.responseText) < EarlyLength(wire)
  /\ xhr' = [xhr EXCEPT
               !.status = wire.status,
               !.responseText = Append(@, wire.text[Len(@) + 1])]
  /\ UNCHANGED << inputVars, runs, requests, pc, source, uploadedFile, pollVars, pageVars, error,
                  result, routeVars, trace, wire, lastResponseIndex,
                  responseBuffer, client, handled >>

\* xhr.onprogress
xhr_onprogress ==
  /\ host = "client"
  /\ pc = "c_sent"
  /\ xhr.responseText # <<>>
  /\ lastResponseIndex' = ParsedSoFar.lastResponseIndex
  /\ responseBuffer' = ParsedSoFar.responseBuffer
  /\ client' = ParsedSoFar.client
  /\ handled' = ParsedSoFar.handled
  /\ UNCHANGED << inputVars, runs, requests, pc, source, uploadedFile, pollVars, pageVars, error,
                  result, routeVars, trace, wire, xhr >>

\* body.error || "Request failed", as the message of the error thrown and
\* caught in xhr.onload; JSON.parse or the read of body.error may throw first
FailureMessage(body) ==
  IF ~body.ok THEN Fixed("SyntaxError")
  ELSE IF body.v.t = "null" THEN Fixed("TypeError")
  ELSE IF /\ GetProperty(body.v, <<"e","r","r","o","r">>).defined
          /\ GetProperty(body.v, <<"e","r","r","o","r">>).v.t = "str"
          /\ GetProperty(body.v, <<"e","r","r","o","r">>).v.s # <<>>
    THEN FromEvent(GetProperty(body.v, <<"e","r","r","o","r">>))
  ELSE Fixed("Request failed")

\* variant: a stream that ends with neither a result nor an error is left as
\* it is
AfterLoad_noFallback(c, request) ==
  IF request.status >= 400
    THEN [c EXCEPT !.hadError = TRUE,
                   !.status = "error",
                   !.statusDetail = Fixed("Request failed before completion."),
                   !.error = FailureMessage(JSONparse(request.responseText))]
  ELSE c

\* what xhr.onload does after parseResponseText
AfterLoad(c, request) ==
  IF request.status >= 400
    THEN [c EXCEPT !.hadError = TRUE,
                   !.status = "error",
                   !.statusDetail = Fixed("Request failed before completion."),
                   !.error = FailureMessage(JSONparse(request.responseText))]
  ELSE IF ~c.hasResult /\ ~c.hadError
    THEN [c EXCEPT !.status = "error",
                   !.statusDetail = Fixed("Unexpected response from the server."),
                   !.error = Fixed("Unexpected response from the server.")]
  ELSE c

\* xhr.onload: the whole response has arrived
xhr_onload ==
  /\ host = "client"
  /\ pc = "c_sent"
  /\ xhr.uploadComplete
  /\ xhr.responseText = wire.text
  /\ lastResponseIndex' = ParsedSoFar.lastResponseIndex
  /\ responseBuffer' = ParsedSoFar.responseBuffer
  /\ client' = AfterLoad(ParsedSoFar.client, xhr)
  /\ handled' = ParsedSoFar.handled
  /\ pc' = "c_loaded"
  /\ UNCHANGED << inputVars, runs, requests, source, uploadedFile, pollVars, pageVars, error,
                  result, routeVars, trace, wire, xhr >>

\* xhr.onerror: the request failed on the network
xhr_onerror ==
  /\ host = "client"
  /\ pc = "c_sent"
  /\ client' = NetworkError(client)
  /\ pc' = "c_failed"
  /\ UNCHANGED << inputVars, runs, requests, source, uploadedFile, pollVars, pageVars, error,
                  result, routeVars, trace, wire, xhr, lastResponseIndex,
                  responseBuffer, handled >>

ClientNext ==
  \/ handleSubmit_stream
  \/ xhr_upload_onload
  \/ xhr_receive
  \/ xhr_onprogress
  \/ xhr_onload
  \/ xhr_onerror

\* ====================================================================
\* Two runs side by side: the stream that POST creates for a request and the
\* backoff state that waitForGeminiFileActive creates for a call
\* ====================================================================
\* a record as run r writes it; `by` tells the property who wrote it
Written(r, record) == [by |-> r, record |-> record]

\* await writer.write(...) through the send of run r: send closes over the
\* writer POST created for this request
RunSend(rs, r, record) ==
  [rs EXCEPT ![r].records = Append(@, Written(r, record))]

\* variant: delayMs and attempt are one pair of variables for all calls
Backoff_shared(rs, r) ==
  [q \in Runs |->
     [rs[q] EXCEPT !.delayMs = NextDelay(rs[r].delayMs),
                   !.attempt = rs[r].attempt + 1,
                   !.pc = IF q = r THEN "poll" ELSE @]]

\* delayMs = Math.min(delayMs * 2, ...); attempt += 1 on the variables that
\* this call of waitForGeminiFileActive declared
Backoff(rs, r) ==
  [rs EXCEPT ![r].delayMs = NextDelay(@),
             ![r].attempt = @ + 1,
             ![r].pc = "poll"]

\* POST for request r: a new stream and writer, the first record, and on to
\* the poller with its new delayMs and attempt
Concurrent_POST(r) ==
  /\ runs[r].pc = "idle"
  /\ runs' = RunSend([runs EXCEPT ![r].writer = "open",
                                  ![r].delayMs = FILE_ACTIVE_POLL_INITIAL_MS,
                                  ![r].attempt = 1,
                                  ![r].pc = "poll"],
                     r, StatusRecord("received"))
  /\ UNCHANGED << inputVars, requests, clientVars, pc, source, uploadedFile, pollVars,
                  pageVars, error, result, routeVars, trace >>

\* a status reply arrives for run r
Concurrent_poll(r) ==
  /\ runs[r].pc = "poll"
  /\ \E state \in {"PROCESSING", "ACTIVE", "FAILED"} :
       CASE PollOutcome(state) = "return" ->
              runs' = RunSend([runs EXCEPT ![r].replies = Append(@, state),
                                           ![r].writer = "closed",
                                           ![r].pc = "closed"],
                              r, ResultRecord)
         [] PollOutcome(state) = "throw" ->
              runs' = RunSend([runs EXCEPT ![r].replies = Append(@, state),
                                           ![r].writer = "closed",
                                           ![r].pc = "closed"],
                              r, ErrorRecord)
         [] OTHER ->
              /\ runs[r].attempt <= MaxPolls
              /\ runs' = RunSend([runs EXCEPT ![r].replies = Append(@, state),
                                              ![r].pc = "sleep"],
                                 r, mapStatus(EmitProcessing(runs[r].attempt,
                                                             runs[r].delayMs)))
  /\ UNCHANGED << inputVars, requests, clientVars, pc, source, uploadedFile, pollVars,
                  pageVars, error, result, routeVars, trace >>

\* the sleep of run r ends
Concurrent_wake(r) ==
  /\ runs[r].pc = "sleep"
  /\ runs' = Backoff(runs, r)
  /\ UNCHANGED << inputVars, requests, clientVars, pc, source, uploadedFile, pollVars,
                  pageVars, error, result, routeVars, trace >>

PairInit ==
  /\ Init
  /\ host = "route"
  /\ videoUrl = <<>>
  /\ file = NoFile
  /\ apiKey = <<>>
  /\ contentType = "multipart/form-data"

PairNext ==
  \E r \in Runs :
    \/ Concurrent_POST(r)
    \/ Concurrent_poll(r)
    \/ Concurrent_wake(r)

\* the steps of the two runs in any order
PairSpec == PairInit /\ [][PairNext]_vars

\* ====================================================================
\* The streaming client over several submissions: every handleSubmit makes
\* a request with callbacks and locals of its own, and all of them write
\* the one state of the page
\* ====================================================================
\* the page's state as the callbacks of request q see it, with the locals
\* hasResult and hadError of that request
WithLocals(c, q) ==
  [c EXCEPT !.hasResult = q.hasResult, !.hadError = q.hadError]

\* request q after its callbacks have handled its records up to the k-th
\* and left the page with the locals of c
Handled(q, k, c) ==
  [q EXCEPT !.next = k + 1, !.hasResult = c.hasResult, !.hadError = c.hadError]

\* parseResponseText of a request that has received its first k records
\* whole: those not yet handled are handled in order
ParsedUpTo(c, q, k) ==
  HandleLines(Append(SubSeq(q.wire.lines, q.next, k), <<>>), 1,
              [client |-> WithLocals(c, q), handled |-> <<>>]).client

\* the form of the streaming client is edited
Request_onChange ==
  /\ host = "client"
  /\ \E form \in ClientFormCandidates :
       /\ videoUrl' = form[1]
       /\ file' = form[2]
  /\ << videoUrl', file' >> # << videoUrl, file >>
  /\ UNCHANGED << host, apiKey, contentType, runs, requests, pc, source,
                  uploadedFile, pollVars, pageVars, error, result, routeVars,
                  trace, clientVars >>

\* handleSubmit of the streaming client: the button is not disabled
Request_submit(r) ==
  /\ host = "client"
  /\ ~SubmitDisabled(client.status)
  /\ requests[r].pc = "idle"
  /\ IF Trim(videoUrl) = <<>> /\ ~file.present
       THEN /\ client' = SubmitRejected(client)
            /\ UNCHANGED requests
       ELSE /\ client' = WithLocals(SubmitAccepted(client, file), IdleRequest)
            /\ \E response \in Responses :
                 requests' = [requests EXCEPT
                                ![r] = [IdleRequest EXCEPT !.pc = "sent",
                                                           !.wire = response]]
  /\ UNCHANGED << inputVars, runs, pc, source, uploadedFile, pollVars, pageVars,
                  error, result, routeVars, trace, wire, xhr,
                  lastResponseIndex, responseBuffer, handled >>

\* xhr.upload.onload of request r
Request_upload_onload(r) ==
  /\ host = "client"
  /\ requests[r].pc = "sent"
  /\ ~requests[r].uploadComplete
  /\ requests' = [requests EXCEPT ![r].uploadComplete = TRUE]
  /\ client' = [client EXCEPT !.status = "processing"]
  /\ UNCHANGED << inputVars, runs, pc, source, uploadedFile, pollVars, pageVars,
                  error, result, routeVars, trace, wire, xhr,
                  lastResponseIndex, responseBuffer, handled >>

\* xhr.onprogress of request r, with some more of its records received; only
\* the first record comes before the request body is complete
Request_onprogress(r) ==
  /\ host = "client"
  /\ requests[r].pc = "sent"
  /\ \E k \in requests[r].next..Len(requests[r].wire.lines) :
       /\ requests[r].uploadComplete \/ k = 1
       /\ client' = WithLocals(ParsedUpTo(client, requests[r], k), IdleRequest)
       /\ requests' = [requests EXCEPT
                         ![r] = Handled(@, k, ParsedUpTo(client, requests[r], k))]
  /\ UNCHANGED << inputVars, runs, pc, source, uploadedFile, pollVars, pageVars,
                  error, result, routeVars, trace, wire, xhr,
                  lastResponseIndex, responseBuffer, handled >>

\* the page after xhr.onload of request q
Loaded(c, q) ==
  AfterLoad(ParsedUpTo(c, q, Len(q.wire.lines)),
            [status |-> q.wire.status, responseText |-> q.wire.text])

\* xhr.onload of request r: the request is over
Request_onload(r) ==
  /\ host = "client"
  /\ requests[r].pc = "sent"
  /\ requests[r].uploadComplete
  /\ client' = WithLocals(Loaded(client, requests[r]), IdleRequest)
  /\ requests' = [requests EXCEPT ![r] = IdleRequest]
  /\ UNCHANGED << inputVars, runs, pc, source, uploadedFile, pollVars, pageVars,
                  error, result, routeVars, trace, wire, xhr,
                  lastResponseIndex, responseBuffer, handled >>

\* xhr.onerror of request r: the request is over
Request_onerror(r) ==
  /\ host = "client"
  /\ requests[r].pc = "sent"
  /\ client' = WithLocals(NetworkError(client), IdleRequest)
  /\ requests' = [requests EXCEPT ![r] = IdleRequest]
  /\ UNCHANGED << inputVars, runs, pc, source, uploadedFile, pollVars, pageVars,
                  error, result, routeVars, trace, wire, xhr,
                  lastResponseIndex, responseBuffer, handled >>

RequestInit == Init /\ host = "client"

RequestNext ==
  \/ Request_onChange
  \/ \E r \in Runs :
       \/ Request_submit(r)
       \/ Request_upload_onload(r)
       \/ Request_onprogress(r)
       \/ Request_onload(r)
       \/ Request_onerror(r)

\* the callbacks of the requests in any order
RequestSpec == RequestInit /\ [][RequestNext]_vars

Run == PageNext \/ RouteNext

Next == Run \/ ClientDisconnect \/ ClientNext

Spec == Init /\ [][Next]_vars

\* every step of a run that can be taken is taken; the caller may stay
FairSpec == Spec /\ WF_vars(Run)

\* the browser page over any number of submissions: a run, then the form is
\* edited, then the next submission
SubmitInit == Init /\ host = "page"
SubmitNext == PageNext \/ onChange
SubmitSpec == SubmitInit /\ [][SubmitNext]_vars

\* -------------------------------------------------------------------- types
TypeOK ==
  /\ host \in {"page", "route", "client"}
  /\ pc \in {"c_returned", "c_sent", "c_loaded", "c_failed"} \cup
           {"idle", "p_startUpload", "p_sendPayload", "p_poll", "p_sleep",
             "p_generate", "p_returned", "r_rejected", "r_received",
             "r_formData", "l_entry", "l_beginUpload", "l_sendPayload",
             "l_uploaded", "l_poll", "l_sleep", "l_generateStart", "l_generate",
             "r_result", "r_catch", "r_finally", "r_closed"}
  /\ source \in {"none", "youtube", "upload"}
  /\ status \in {"idle", "uploading", "processing", "done", "error"}
  /\ writer \in {"none", "open", "errored", "closed"}
  /\ delayMs \in 0..FILE_ACTIVE_POLL_MAX_MS
  /\ attempt \in 0..(MaxPolls + 1)
  /\ Len(activityLog) <= 5

\* ====================================================================
\* Properties
\* ====================================================================
IsEmit(e) == e.kind = "emit"
IsCall(e) == e.kind = "call"
IsSleep(e) == e.kind = "sleep"
Emits(tr) == SelectSeq(tr, IsEmit)
Calls(tr) == SelectSeq(tr, IsCall)
Sleeps(tr) == SelectSeq(tr, IsSleep)

IsTerminal(rec) == rec.type \in {"result", "error"}
Terminals(recs) == SelectSeq(recs, IsTerminal)

Positions(sq, name) == {i \in 1..Len(sq) : sq[i].name = name}
PhasePositions(recs, phase) ==
  {i \in 1..Len(recs) : recs[i].type = "status" /\ recs[i].phase = phase}

PollPcs == {"p_poll", "l_poll"}
SleepPcs == {"p_sleep", "l_sleep"}
EndedPcs == {"p_returned", "r_catch", "r_finally", "r_closed"}

\* a status reply was handled in this step
PollReplyStep == pc \in PollPcs /\ pc' # pc

\* C1 as stated: a run of the endpoint whose stream was closed wrote exactly
\* one terminal record, and it is the last record
C1_AsStated ==
  (host = "route" /\ pc = "r_closed") =>
     /\ Len(Terminals(records)) = 1
     /\ IsTerminal(records[Len(records)])

\* C1, amended: a run never writes more than one terminal record and never a
\* record after it; a run the caller stayed connected to until the stream
\* was closed wrote exactly one
C1_Terminal ==
  /\ Len(Terminals(records)) <= 1
  /\ \A i \in 1..Len(records) : IsTerminal(records[i]) => i = Len(records)
  /\ (host = "route" /\ pc = "r_closed" /\ ~cancelled) =>
        Len(Terminals(records)) = 1

C1_Witness ==
  /\ pc = "r_closed"
  /\ ~cancelled
  /\ error = "RemoteProcessingFailed"
  /\ records[Len(records)].type = "error"

\* C2: the status events of a run are emitted in stage order, and every
\* event emitted so far is already with the caller (in the stream, in the
\* activity log) whenever a remote operation is started
StageRank(phase) ==
  CASE phase = "upload-start" -> 1
    [] phase = "upload-complete" -> 2
    [] phase = "file-processing" -> 3
    [] phase = "file-active" -> 4
    [] phase = "generate-start" -> 5
    [] phase = "generate-received" -> 6
    [] OTHER -> 0

LibraryRecords(recs) ==
  SelectSeq(recs, LAMBDA rec : rec.type = "status"
                               /\ rec.phase \notin {"received", "processing"})

C2_StageOrder ==
  LET E == Emits(trace)
  IN  /\ \A i, j \in 1..Len(E) :
           i < j => StageRank(E[i].name) <= StageRank(E[j].name)
      /\ \A i \in 1..Len(E) : StageRank(E[i].name) > 0
      /\ host = "route" =>
           LibraryRecords(records) = [i \in 1..Len(E) |-> mapStatus(E[i])]
      /\ host = "page" =>
           LET shown == LastN(E, 5)
           IN  /\ Len(activityLog) = Len(shown)
               /\ \A i \in 1..Len(shown) :
                    /\ activityLog[i].phase = shown[i].name
                    /\ activityLog[i].attempt = shown[i].attempt

C2_Witness ==
  /\ host = "route"
  /\ pc = "r_result"
  /\ Positions(Emits(trace), "file-processing") # {}
  /\ Positions(Emits(trace), "file-active") # {}
  /\ Positions(Emits(trace), "generate-received") # {}

\* C3: upload handle Processing, first status reply Processing, second
\* Active: the stream carries exactly one file-processing record, with
\* attempt 1, then exactly one file-active record, and generate-start only
\* after both
C3_Scenario ==
  /\ host = "route"
  /\ lastResp = "ACTIVE"
  /\ attempt = 2
  /\ error # "WriteFailed"
  /\ firstResp = "PROCESSING"

UploadPhases == {"upload-start", "upload-complete", "file-processing", "file-active"}
UploadOps == {"beginUpload", "sendPayload", "getFileStatus"}

C4_RemoteSkipsUpload ==
  source = "youtube" =>
    /\ \A i \in 1..Len(trace) :
         /\ IsEmit(trace[i]) => trace[i].name \notin UploadPhases
         /\ IsCall(trace[i]) => trace[i] = CallGenerate(FALSE)
         /\ ~IsSleep(trace[i])
    /\ \A i \in 1..Len(records) :
         records[i].phase \notin {"uploading", "upload-complete",
                                  "file-processing", "file-active"}
    /\ \A i \in 1..Len(activityLog) : activityLog[i].phase \notin UploadPhases
    /\ pc \in {"p_generate", "l_generate"} => Calls(trace) = << CallGenerate(FALSE) >>

C4_Witness ==
  /\ source = "youtube"
  /\ host = "page"
  /\ pc = "p_generate"
  /\ file.present
  /\ Calls(trace) = << CallGenerate(FALSE) >>

\* C5: the k-th sleep of the poller lasts 100 * 2^(k-1) ms for k <= 8 and
\* 20000 ms from the ninth on; each delay is min(2 * previous, 20000)
ExpectedDelay(k) == IF k <= 8 THEN 100 * (2 ^ (k - 1)) ELSE 20000

C5_DelaySequence ==
  LET S == Sleeps(trace)
  IN  /\ \A k \in 1..Len(S) : S[k].ms = ExpectedDelay(k)
      /\ \A k \in 1..(Len(S) - 1) :
           /\ S[k + 1].ms = Min(2 * S[k].ms, 20000)
           /\ S[k + 1].ms >= S[k].ms
      /\ \A k \in 1..Len(S) : S[k].ms <= 20000
      /\ pc \in SleepPcs => delayMs = S[Len(S)].ms

C5_Witness ==
  /\ host = "page"
  /\ pc = "p_sleep"
  /\ Len(Sleeps(trace)) >= 10
  /\ delayMs = 20000

\* C6 as stated: a status reply whose state is neither Processing nor Active
\* (Failed, unrecognized, or missing) ends the poller with
\* RemoteProcessingFailed: no event, no sleep, no further status request
C6_AsStated ==
  [][ (PollReplyStep /\ lastResp' \notin {"PROCESSING", "ACTIVE", "notOk"}) =>
        /\ error' = "RemoteProcessingFailed"
        /\ trace' = trace
        /\ pc' \in EndedPcs ]_vars

\* C6, amended: a status reply whose state is present and is neither
\* Processing nor Active ends the poller with RemoteProcessingFailed, with no
\* event, no sleep and no further status request; a reply without a state is
\* handled as Processing
C6_TerminalFailure ==
  [][ /\ (PollReplyStep /\ lastResp' \notin {"", "PROCESSING", "ACTIVE", "notOk"}) =>
          /\ error' = "RemoteProcessingFailed"
          /\ trace' = trace
          /\ pc' \in EndedPcs
      /\ (PollReplyStep /\ lastResp' \in {"", "PROCESSING"} /\ writer # "errored") =>
          /\ pc' \in SleepPcs
          /\ trace' = trace \o << EmitProcessing(attempt, delayMs), Sleep(delayMs) >>
      /\ (error = "RemoteProcessingFailed" /\ lastResp # "none") =>
          Calls(trace') = Calls(trace) ]_vars

C6_Witness ==
  /\ host = "page"
  /\ lastResp = "STATE_UNSPECIFIED"
  /\ firstResp = "PROCESSING"
  /\ error = "RemoteProcessingFailed"
  /\ pc = "p_returned"

\* C7 as stated: a generation request with an attached file is sent only
\* when the latest state seen for the file (upload reply or last status
\* reply) is Active; an upload reply in another state than Processing or
\* Active ends the run with RemoteProcessingFailed and without generate
LatestFileState == IF lastResp = "none" THEN uploadedFile.state ELSE lastResp

C7_AsStated ==
  /\ CallGenerate(TRUE) \in {trace[i] : i \in 1..Len(trace)} =>
       LatestFileState = "ACTIVE"
  /\ (uploadedFile # NoHandle /\ lastResp = "none"
        /\ uploadedFile.state \notin {"PROCESSING", "ACTIVE"}
        /\ pc \notin {"l_uploaded"}) =>
       /\ error = "RemoteProcessingFailed"
       /\ Positions(Calls(trace), "generate") = {}

\* C8: the poller of the page stops only on an Active reply, a failure state
\* or a failed status request; a Processing reply makes it sleep and ask
\* again whatever the attempt number; a poller that is asked or asleep gets
\* its next reply, and once the reply is Active the generation request is out
C8_NoCeiling ==
  /\ [][ (host = "page" /\ pc \in PollPcs \cup SleepPcs
            /\ pc' \notin PollPcs \cup SleepPcs) =>
           lastResp' \in {"ACTIVE", "FAILED", "STATE_UNSPECIFIED", "notOk"} ]_vars
  /\ [][ (host = "page" /\ PollReplyStep /\ lastResp' = "PROCESSING") =>
           /\ pc' = "p_sleep"
           /\ attempt' = attempt /\ delayMs' = delayMs ]_vars
  /\ [][ (host = "page" /\ pc = "p_sleep") =>
           (pc' = "p_poll" /\ attempt' = attempt + 1
              /\ trace' = Append(trace, Call("getFileStatus"))) ]_vars
  /\ [](host = "page" /\ lastResp = "ACTIVE" => pc \in {"p_generate", "p_returned"}
                                                /\ Positions(Calls(trace), "generate") # {})
  /\ (host = "page" /\ pc = "p_sleep") ~> (pc = "p_poll")
  /\ (host = "page" /\ pc = "p_poll") ~> (pc \in {"p_sleep", "p_generate", "p_returned"})

C8_Witness ==
  /\ host = "page"
  /\ attempt >= 10
  /\ lastResp = "ACTIVE"
  /\ pc = "p_generate"

\* C9 as stated: once the caller is gone the run makes no further status or
\* generation request and writes neither a result nor an error record
C9_AsStated ==
  [][ cancelled =>
        /\ Positions(Calls(trace'), "getFileStatus") = Positions(Calls(trace), "getFileStatus")
        /\ Positions(Calls(trace'), "generate") = Positions(Calls(trace), "generate")
        /\ Terminals(records') = Terminals(records) ]_vars

\* C10: the writer of a streaming run is closed on every exit path, and no
\* record is written once close was called
C10_WriterClosed ==
  /\ (writer # "none") ~> closeCalled
  /\ [][ closeCalled => (records' = records /\ closeCalled') ]_vars
  /\ [](pc = "r_closed" <=> closeCalled)
  /\ [](writer = "closed" => closeCalled)

C10_Witness ==
  /\ closeCalled
  /\ writer = "errored"
  /\ error = "WriteFailed"
  /\ Terminals(records) = <<>>

\* --------------------------------------------------- the Source Preparer
\* the validation of the inputs has run: the page passed the key check, the
\* endpoint read the form
PreparerRan ==
  \/ host = "page" /\ pc # "idle" /\ apiKey = <<"k">>
  \/ /\ host = "route"
     /\ records # <<>>
     /\ pc \notin {"idle", "r_rejected", "r_received", "r_formData"}
     /\ error # "BadRequestBody"

\* the payload is the input the preparer looks at
PayloadSelected == file.present /\ (host = "route" \/ videoUrl = <<>>)

\* the URL is the input the preparer looks at
UrlSelected ==
  /\ videoUrl \notin { <<>>, <<" ", " ">> }
  /\ host = "route" => ~file.present

\* the run went on to the upload
PayloadAccepted ==
  IF host = "page"
    THEN trace # <<>> /\ trace[1] = Emit("upload-start")
    ELSE source = "upload"

FailFastErrors == {"MissingCredential", "MissingInput", "InvalidLocator",
                   "UnsupportedMediaType", "PayloadTooLarge"}

\* C11: a run that ends with a validation error or with a missing API key
\* has invoked no remote operation, has no result, has ended, and wrote at
\* most that one error; a blank key never leads to a remote operation
C11_FailFast ==
  /\ error \in FailFastErrors =>
       /\ Calls(trace) = <<>>
       /\ ~result.present
       /\ pc \in {"p_returned", "r_catch", "r_finally", "r_closed"}
       /\ Len(Terminals(records)) <= 1
       /\ \A i \in 1..Len(records) : records[i].type # "result"
  /\ (host = "page" /\ apiKey \in { <<>>, <<" ">> }) =>
       /\ Calls(trace) = <<>>
       /\ pc # "idle" => error = "MissingCredential" /\ pc = "p_returned"
  /\ (host = "route" /\ apiKey = <<>>) => Calls(trace) = <<>>

C11_Witness ==
  /\ host = "page"
  /\ apiKey = <<" ">>
  /\ file.present
  /\ pc = "p_returned"
  /\ error = "MissingCredential"
  /\ trace = <<>>

\* C12 as stated: when a payload and a URL are both supplied, the source the
\* run settles on is the payload
C12_AsStated ==
  (file.present /\ videoUrl = <<"h","t","t","p",":","/","/","a">>
     /\ source # "none") => source = "upload"

\* C13: a video payload of more than 2 GiB is refused with PayloadTooLarge
\* before any remote operation; one of exactly 2 GiB, or smaller, goes on to
\* the upload
C13_SizeLimit ==
  (PreparerRan /\ PayloadSelected
     /\ file.type = <<"v","i","d","e","o","/","m","p","4">>) =>
    /\ file.size = <<2048, 1>> =>
         /\ error = "PayloadTooLarge"
         /\ ~PayloadAccepted
         /\ Calls(trace) = <<>>
    /\ file.size \in { <<0, 1>>, <<2048, 0>> } =>
         /\ error # "PayloadTooLarge"
         /\ PayloadAccepted

C13_Witness ==
  /\ PreparerRan
  /\ PayloadSelected
  /\ file.size = <<2048, 0>>
  /\ Call("sendPayload") \in {trace[i] : i \in 1..Len(trace)}

\* C14: a URL that does not parse, or whose scheme does not begin with
\* "http", is refused with InvalidLocator before any remote operation; a URL
\* that parses and whose scheme begins with "http" becomes a Remote source
RefusedUrls == { <<"n","o","t"," ","a"," ","u","r","l">>,
                 <<"f","t","p",":","/","/","x">>,
                 <<"h","t","t","p",":","/","/">> }
HttpUrls == { <<"h","t","t","p",":","/","/","a">>,
              <<" ","H","T","T","P","S",":","/","/","a"," ">>,
              <<"h","t","t","p","x",":","a">> }

C14_Locator ==
  (PreparerRan /\ UrlSelected) =>
    /\ videoUrl \in RefusedUrls =>
         /\ error = "InvalidLocator"
         /\ source = "none"
         /\ Calls(trace) = <<>>
    /\ videoUrl \in HttpUrls =>
         /\ error # "InvalidLocator"
         /\ source = "youtube"

C14_Witness ==
  /\ PreparerRan
  /\ videoUrl = <<"f","t","p",":","/","/","x">>
  /\ error = "InvalidLocator"
  /\ pc \in {"p_returned", "r_closed"}

\* C15: a payload whose MIME type does not start with "video/" (also an
\* empty one) is refused with UnsupportedMediaType and never becomes a
\* source; every payload that reaches the upload has a MIME type that starts
\* with "video/"
C15_MediaType ==
  /\ (PreparerRan /\ PayloadSelected
        /\ file.type \in { <<>>, <<"t","e","x","t","/","x">> }) =>
       /\ error = "UnsupportedMediaType"
       /\ ~PayloadAccepted
       /\ source # "upload"
       /\ Calls(trace) = <<>>
  /\ (\E i \in 1..Len(trace) : IsCall(trace[i]) /\ trace[i].name \in UploadOps) =>
       /\ file.present
       /\ SubSeq(file.type, 1, 6) = <<"v","i","d","e","o","/">>

C15_Witness ==
  /\ PreparerRan
  /\ PayloadSelected
  /\ file.type = <<>>
  /\ error = "UnsupportedMediaType"
  /\ pc \in {"p_returned", "r_closed"}

\* C16: with no payload and a URL that is empty or only whitespace the
\* preparer fails with MissingInput: no source is constructed and no remote
\* operation is invoked
C16_MissingInput ==
  (PreparerRan /\ ~file.present /\ videoUrl \in { <<>>, <<" ", " ">> }) =>
    /\ error = "MissingInput"
    /\ source = "none"
    /\ activeSourceType = "null"
    /\ Calls(trace) = <<>>
    /\ pc \in {"p_returned", "r_catch", "r_finally", "r_closed"}

C16_Witness ==
  /\ PreparerRan
  /\ ~file.present
  /\ videoUrl = <<" ", " ">>
  /\ error = "MissingInput"
  /\ pc \in {"p_returned", "r_closed"}

\* ------------------------------------------------------------ no retries
RemoteErrors == {"TransportError", "RemoteProcessingFailed"}

CallCount(op) == Len(SelectSeq(trace, LAMBDA e : IsCall(e) /\ e.name = op))

\* C17: beginUpload, sendPayload and generate are each invoked at most once
\* in a run; once a remote operation has failed (a failed status request
\* included) the run has ended with that error, and no step after the
\* failure invokes a remote operation or replaces the error
C17_NoRetry ==
  /\ [](/\ \A op \in {"beginUpload", "sendPayload", "generate"} : CallCount(op) <= 1
        /\ error \in RemoteErrors =>
             pc \in {"p_returned", "r_catch", "r_finally", "r_closed"}
        /\ lastResp = "notOk" =>
             /\ error = "TransportError"
             /\ CallCount("generate") = 0
             /\ Calls(trace)[Len(Calls(trace))] = Call("getFileStatus"))
  /\ [][(error \in RemoteErrors) =>
          (Calls(trace') = Calls(trace) /\ error' = error)]_vars

C17_Witness ==
  /\ host = "page"
  /\ pc = "p_returned"
  /\ error = "TransportError"
  /\ lastResp = "notOk"
  /\ attempt >= 2
  /\ CallCount("getFileStatus") = attempt

\* --------------------------------------------- GenerateStart / Received
\* C18 as stated: the generation request is invoked only after
\* generate-start was emitted, whatever the source kind; a result exists
\* only after generate-received was emitted after the request; a run whose
\* generation failed or returned no text has emitted no generate-received
C18_AsStated ==
  LET gen == {i \in 1..Len(trace) : IsCall(trace[i]) /\ trace[i].name = "generate"}
      started == {i \in 1..Len(trace) : trace[i] = Emit("generate-start")}
      received == {i \in 1..Len(trace) : trace[i] = Emit("generate-received")}
  IN  /\ \A g \in gen : \E i \in started : i < g
      /\ result.present => \E g \in gen : \E i \in received : g < i
      /\ (error \in RemoteErrors /\ ~result.present) => received = {}

\* ------------------------------------------------------ the Response Parser
\* C19: the parser never fails: no run ends with an error raised by the
\* parser, and every run that obtained raw text and is done holds the result
\* the parser returned for it
C19_NeverFails ==
  /\ error # "ParserError"
  /\ status = "done" => result.present /\ result.rawText # <<>>
  /\ result.present => result.rawText \in RawTexts \ { <<>> }

C19_Witness ==
  /\ host = "page"
  /\ status = "done"
  /\ result.present
  /\ result.rawText = RawText_embeddedBad

\* raw texts for which the whole cleaned text and the text between the
\* braces both fail to parse, and those for which one of them parses
FallbackTexts ==
  { RawText_plain, RawText_null, RawText_numberTranscript, RawText_unclosed,
    RawText_reversed, RawText_badObject, RawText_embeddedBad, RawText_blank,
    RawText_fencedPlain }
StructuredTexts ==
  { RawText_object, RawText_fenced, RawText_embedded, RawText_number,
    RawText_string, RawText_array, RawText_true, RawText_mixedNotes,
    RawText_bullets, RawText_upperFence, RawText_arrayOfObject,
    RawText_dashArray }

\* the cleaned text of a raw text of FallbackTexts
CleanedFallback(rawText) ==
  CASE rawText = RawText_blank -> <<>>
    [] rawText = RawText_fencedPlain -> <<"s","o","r","r","y">>
    [] OTHER -> rawText

\* C20: the result carries a raw response exactly when both structured
\* layers failed; then the transcript is the full cleaned text, the notes
\* are empty and the raw response equals the transcript; when a structured
\* layer succeeded the raw response is absent
C20_Fallback ==
  result.present =>
    /\ result.rawText \in FallbackTexts \cup StructuredTexts
    /\ result.rawText \in FallbackTexts =>
         /\ ~result.rawResponse.null
         /\ result.transcript = CleanedFallback(result.rawText)
         /\ result.notes = <<>>
         /\ result.rawResponse.text = result.transcript
    /\ result.rawText \in StructuredTexts =>
         /\ result.rawResponse.null
         /\ result.rawResponse.text = <<>>

C20_Witness ==
  /\ host = "page"
  /\ result.present
  /\ result.rawText = RawText_fencedPlain
  /\ result.rawResponse = RawResponse(<<"s","o","r","r","y">>)

\* the parse of the whole cleaned text, and the parse of the text from the
\* first "{" to the last "}" of the cleaned text, of every reply
WholeTextParse ==
  [rawText \in RawTexts |-> tryParse(stripCodeFence(rawText))]
BraceTextParse ==
  [rawText \in RawTexts |-> extractAndParse(stripCodeFence(rawText))]
BracesInOrder(text) ==
  /\ IndexOf(text, "{") >= 1
  /\ LastIndexOf(text, "}") > IndexOf(text, "{")

\* C21: the layers apply in a fixed order.  When the whole cleaned text
\* parses the result is the one of the whole text; the text between the
\* first "{" and the last "}" gives the result only when the whole text
\* failed and both braces are there in order; the raw fallback is used only
\* when the whole text failed and the text between the braces gave nothing
C21_LayerOrder ==
  result.present =>
    /\ ~WholeTextParse[result.rawText].threw =>
         /\ result.transcript = WholeTextParse[result.rawText].transcript
         /\ result.notes = WholeTextParse[result.rawText].notes
         /\ result.rawResponse.null
    /\ (/\ WholeTextParse[result.rawText].threw
        /\ BraceTextParse[result.rawText].returned) =>
         /\ BracesInOrder(stripCodeFence(result.rawText))
         /\ result.transcript = BraceTextParse[result.rawText].transcript
         /\ result.notes = BraceTextParse[result.rawText].notes
         /\ result.rawResponse.null
    /\ ~result.rawResponse.null =>
         /\ WholeTextParse[result.rawText].threw
         /\ ~BraceTextParse[result.rawText].returned
    /\ result.rawText = RawText_arrayOfObject => result.transcript = <<>>
    /\ result.rawText = RawText_embedded => result.transcript = <<"t">>
    /\ result.rawText = RawText_reversed => ~result.rawResponse.null

\* the whole text parsed although the text between its braces would have
\* given another transcript
C21_Witness ==
  /\ host = "page"
  /\ result.present
  /\ result.rawText = RawText_arrayOfObject
  /\ result.transcript = <<>>
  /\ BraceTextParse[result.rawText].transcript = <<"i","n">>

\* replies whose notes are one string of lines, and replies whose notes are
\* an array
StringNotesTexts == { RawText_fenced, RawText_bullets }
ArrayNotesTexts ==
  { RawText_object, RawText_embedded, RawText_mixedNotes, RawText_dashArray }

\* the notes in the order of the reply, for the replies that have notes
ExpectedNotes(rawText) ==
  CASE rawText = RawText_object -> << <<"a">>, <<"b">> >>
    [] rawText = RawText_fenced -> << <<"o","n","e">>, <<"t","w","o">> >>
    [] rawText = RawText_bullets -> << <<"a">>, <<"b">> >>
    [] rawText = RawText_dashArray -> << <<"-"," ","y">>, <<"z">> >>
    [] rawText = RawText_mixedNotes ->
         << <<"x">>, <<"1">>, <<"n","u","l","l">>, <<"2",",">>,
            <<"[","o","b","j","e","c","t"," ","O","b","j","e","c","t","]">> >>
    [] OTHER -> <<>>

\* C22: the notes of a successfully parsed response hold no empty string,
\* every entry is trimmed, the entries are in the order of the array
\* elements or of the lines of the reply, and the lines of notes given as
\* one string have lost their leading "-", bullet and whitespace markers
C22_Notes ==
  (result.present /\ result.rawResponse.null) =>
    /\ \A i \in 1..Len(result.notes) :
         /\ result.notes[i] # <<>>
         /\ Trim(result.notes[i]) = result.notes[i]
         /\ result.rawText \in StringNotesTexts =>
              Head(result.notes[i]) \notin ({"-", Bullet} \cup Whitespace)
    /\ result.notes = ExpectedNotes(result.rawText)

\* notes of three lines, the middle one empty, the others with markers
C22_Witness ==
  /\ host = "page"
  /\ result.present
  /\ result.rawResponse.null
  /\ result.rawText = RawText_bullets
  /\ result.notes = << <<"a">>, <<"b">> >>

\* C23: a handle the page holds changes only by being replaced with the
\* reply of a status request: the new handle is that reply, state included,
\* and no field of the upload reply survives next to fields of the status
\* reply
C23_AsStated ==
  [][(/\ host = "page"
      /\ uploadedFile # NoHandle
      /\ uploadedFile' # NoHandle
      /\ uploadedFile' # uploadedFile) =>
       (/\ uploadedFile' \in StatusReplies
        /\ uploadedFile'.state = lastResp')]_vars

IsPrefix(s, t) == Len(s) <= Len(t) /\ SubSeq(t, 1, Len(s)) = s

\* C25 as stated: what the caller holds, the records of the stream and the
\* activity log of the page, only grows by appending
C25_AsStated ==
  [][/\ IsPrefix(records, records')
     /\ IsPrefix(activityLog, activityLog')]_vars

\* C25: the records of the stream only grow by appending; the activity log
\* of the page changes only by taking k new entries behind its 5 - k newest
\* ones, so that an entry leaves the log only when five newer ones have come;
\* the step in which a run fails takes nothing out of the log
C25_NotRetracted ==
  [][/\ IsPrefix(records, records')
     /\ (activityLog' # activityLog) =>
          \E k \in 1..Len(activityLog') :
            SubSeq(activityLog', 1, Len(activityLog') - k)
              = LastN(activityLog, 5 - k)
     /\ (status' = "error" /\ status # "error") =>
          activityLog' = activityLog]_vars

\* a run that failed after six status events: the log holds the last five
C25_Witness ==
  /\ host = "page"
  /\ status = "error"
  /\ Len(Emits(trace)) = 6
  /\ Len(activityLog) = 5
  /\ activityLog[1].phase = "upload-complete"

IsProcessingEmit(e) == e.kind = "emit" /\ e.name = "file-processing"
IsStatusCall(e) == e.kind = "call" /\ e.name = "getFileStatus"
CountUpTo(tr, i, Test(_)) == Cardinality({j \in 1..i : Test(tr[j])})

\* C26: the k-th file-processing event of a run of the page carries attempt k
\* and the delay min(100 * 2^(k-1), 20000); k status requests and no more
\* were made before it; the sleep that follows it lasts the announced delay
\* and the next status request comes right after that sleep; the entry the
\* log shows for attempt k announces that delay, in tenths of a second
C26_Announced ==
  host = "page" =>
    /\ \A i \in 1..Len(trace) :
         IsProcessingEmit(trace[i]) =>
           /\ trace[i].attempt = CountUpTo(trace, i, IsProcessingEmit)
           /\ trace[i].ms = ExpectedDelay(trace[i].attempt)
           /\ CountUpTo(trace, i, IsStatusCall) = trace[i].attempt
           /\ i < Len(trace)
           /\ trace[i + 1] = Sleep(trace[i].ms)
           /\ (i + 2 <= Len(trace)) => IsStatusCall(trace[i + 2])
    /\ \A i \in 1..Len(activityLog) :
         activityLog[i].phase = "file-processing" =>
           activityLog[i].tenths
             = formatBackoffSeconds(ExpectedDelay(activityLog[i].attempt))

\* the ninth event, the first with the capped delay, and the request after it
C26_Witness ==
  /\ host = "page"
  /\ pc = "p_poll"
  /\ attempt = 10
  /\ EmitProcessing(9, 20000) \in {trace[i] : i \in 1..Len(trace)}
  /\ activityLog[Len(activityLog)].tenths = 200

\* C27: a generation request with an attached file is sent only when the
\* latest state seen of the file, in the upload reply or the last status
\* reply, is ACTIVE; and a generation request has an attachment exactly when
\* the source is the uploaded file
C27_AsStated ==
  [][\A attached \in BOOLEAN :
       (/\ host = "page"
        /\ trace' # trace
        /\ trace'[Len(trace')] = CallGenerate(attached)) =>
         /\ attached => LatestFileState' = "ACTIVE"
         /\ attached <=> (source' = "upload")]_vars

NonObjectTexts ==
  { RawText_null, RawText_number, RawText_string, RawText_array, RawText_true }

\* C29: for a reply that is JSON of another type than object and has no
\* text between braces to parse, the parser returns the raw fallback: the
\* transcript is the cleaned text and the raw response is set
C29_AsStated ==
  (result.present /\ result.rawText \in NonObjectTexts) =>
     /\ ~result.rawResponse.null
     /\ result.transcript = result.rawText
     /\ result.rawResponse.text = result.rawText
     /\ result.notes = <<>>

\* the records of a response as events, the number of records that are
\* complete within the first n characters of a text, and the end of the last
\* complete record there
EventOf ==
  [line \in {Line_statusA, Line_result, Line_error} |-> JSONparse(line).v]
CompleteCount(text, n) == Cardinality({i \in 1..n : text[i] = "\n"})
LastNewline(text, n) ==
  IF CompleteCount(text, n) = 0 THEN 0
  ELSE CHOOSE i \in 1..n :
         text[i] = "\n" /\ \A j \in (i + 1)..n : text[j] # "\n"

\* C30: whatever the chunks and the order of the progress and load callbacks,
\* the events handled so far are the records that are complete in the text
\* consumed so far, each once and in the order written; the received part
\* of a record that is not complete waits in the buffer and is not handled;
\* once the response has loaded every record has been handled
C30_ExactlyOnce ==
  host = "client" =>
    /\ lastResponseIndex <= Len(xhr.responseText)
    /\ Len(handled) = CompleteCount(wire.text, lastResponseIndex)
    /\ \A i \in 1..Len(handled) : handled[i] = EventOf[wire.lines[i]]
    /\ responseBuffer
         = SubSeq(wire.text, LastNewline(wire.text, lastResponseIndex) + 1,
                  lastResponseIndex)
    /\ pc = "c_loaded" => Len(handled) = Len(wire.lines)

\* a callback has consumed the first record and a part of the second, and
\* more of the second has arrived since
C30_Witness ==
  /\ host = "client"
  /\ pc = "c_sent"
  /\ Len(wire.lines) = 2
  /\ Len(handled) = 1
  /\ responseBuffer # <<>>
  /\ lastResponseIndex < Len(xhr.responseText)

\* the record a run alone writes for its k-th status reply
AloneRecord(k, state) ==
  CASE state = "ACTIVE" -> ResultRecord
    [] state = "PROCESSING" ->
         [type |-> "status", phase |-> "file-processing", attempt |-> k,
          nextDelayMs |-> ExpectedDelay(k)]
    [] OTHER -> ErrorRecord

\* C24: whatever the order of the steps of two runs, every record in the
\* stream of a run was written by that run, the stream holds exactly the
\* records the run writes alone for the replies it got, and its delay and
\* attempt are those of a run alone after that many replies
C24_Independent ==
  \A r \in Runs :
    /\ \A i \in 1..Len(runs[r].records) : runs[r].records[i].by = r
    /\ runs[r].pc # "idle" =>
         /\ Len(runs[r].records) = Len(runs[r].replies) + 1
         /\ runs[r].records[1].record = StatusRecord("received")
         /\ \A k \in 1..Len(runs[r].replies) :
              runs[r].records[k + 1].record = AloneRecord(k, runs[r].replies[k])
    /\ runs[r].pc = "poll" =>
         /\ runs[r].attempt = Len(runs[r].replies) + 1
         /\ runs[r].delayMs = ExpectedDelay(runs[r].attempt)
    /\ runs[r].pc = "sleep" =>
         /\ runs[r].attempt = Len(runs[r].replies)
         /\ runs[r].delayMs = ExpectedDelay(runs[r].attempt)

\* run 1 is at its fourth status request while run 2 sleeps after its first
C24_Witness ==
  /\ runs[1].pc = "poll"
  /\ runs[1].attempt = 4
  /\ runs[2].pc = "sleep"
  /\ runs[2].attempt = 1
  /\ Len(runs[2].records) = 2

\* the records of a stream that end the run for the page
IsTerminalLine(line) == line \in {Line_result, Line_error}
\* the events handled in a step are all status events, and there is one
OnlyStatusHandled(before, after) ==
  /\ Len(after) > Len(before)
  /\ \A i \in (Len(before) + 1)..Len(after) :
       EventType(after[i]) = <<"s","t","a","t","u","s">>

\* C31: in the streaming client, when the response has loaded the status is
\* done or error; after a stream (status below 400) without a result or an
\* error record it is error with the message of the unexpected response;
\* and a callback that handles only status records leaves a status of done
\* or error as it is
C31_Settled ==
  [][host = "client" =>
       /\ (pc' = "c_loaded" /\ pc # "c_loaded") =>
            /\ client'.status \in {"done", "error"}
            /\ (/\ wire.status < 400
                /\ \A i \in 1..Len(wire.lines) : ~IsTerminalLine(wire.lines[i])) =>
                 /\ client'.status = "error"
                 /\ client'.error = Fixed("Unexpected response from the server.")
       /\ (/\ client.status \in {"done", "error"}
           /\ OnlyStatusHandled(handled, handled')) =>
            client'.status = client.status]_vars

\* the response has loaded, its result was handled before its last status
\* record, and the status is done
C31_Witness ==
  /\ host = "client"
  /\ pc = "c_loaded"
  /\ Len(handled) = 3
  /\ EventType(handled[2]) = <<"r","e","s","u","l","t">>
  /\ EventType(handled[3]) = <<"s","t","a","t","u","s">>
  /\ client.status = "done"
  /\ lastResponseIndex = Len(wire.text)

\* C32 as stated: on the browser page, after any sequence of submissions, a
\* status of done comes with a result and without an error message, and a
\* status of error comes with an error message
C32_AsStated ==
  host = "page" =>
    /\ status = "done" => (result.present /\ error = "null")
    /\ status = "error" => error # "null"

\* a request of the streaming client is in flight from its submission until
\* its run has reached done or error: a result or an error record was
\* handled, or the request has loaded or failed
InFlight(r) ==
  /\ requests[r].pc = "sent"
  /\ ~requests[r].hasResult
  /\ ~requests[r].hadError
\* the run of the browser page is suspended at one of its awaits
PageInFlight ==
  pc \in {"p_startUpload", "p_sendPayload", "p_poll", "p_sleep", "p_generate"}

\* C33 as stated, for the streaming client: at most one run is in flight;
\* while a run is in flight the status is uploading or processing, so that
\* the button is disabled; and the status leaves uploading and processing
\* only in a step in which the run in flight reaches done or error
C33_AsStated ==
  [][host = "client" =>
       /\ Cardinality({r \in Runs : InFlight(r)'}) <= 1
       /\ (\E r \in Runs : InFlight(r)') => SubmitDisabled(client'.status)
       /\ (SubmitDisabled(client.status) /\ ~SubmitDisabled(client'.status)) =>
            /\ client'.status \in {"done", "error"}
            /\ \E r \in Runs : InFlight(r) /\ ~InFlight(r)']_vars

\* C33 on the browser page alone, over any number of submissions: a run
\* that is suspended has the button disabled, and the status leaves
\* uploading and processing only when that run returns, with done or error
C33_PageExclusive ==
  [][host = "page" =>
       /\ PageInFlight' => SubmitDisabled(status')
       /\ (SubmitDisabled(status) /\ ~SubmitDisabled(status')) =>
            /\ PageInFlight
            /\ pc' = "p_returned"
            /\ status' \in {"done", "error"}]_vars

====
